---- MODULE Spec2Model ----
(***************************************************************************)
(* Model of the form-service mutation orchestrator (package service), of  *)
(* the collaborators it drives (the gorm repository, the redis casher and  *)
(* the AMQP publisher) and of the AMQP consumer that feeds the listener.   *)
(***************************************************************************)
EXTENDS Integers, Sequences, FiniteSets, TLC

VARIABLES inv, store, cache, calls,
          consumer, mu, pc, rebind, msgs, broker, outputChan, msg,
          listener, retrier,
          health, group, validate, publisher

\* the state of the Service and its collaborators
svars == <<inv, store, cache, calls>>

\* the state of the Consumer, the broker it talks to and the channel it
\* fills; rebind[t] is what is left of the local slice exchanges of
\* rebindExchanges in goroutine t, msgs[t] the delivery channel msgs that
\* Consume returned to startConsuming in goroutine t
cvars == <<consumer, mu, pc, rebind, msgs, broker, outputChan, msg>>

\* the state of a health request, of a CloserGroup, of a call of
\* Event.Validate and of the Publisher
uvars == <<health, group, validate, publisher>>

\* the state of the Listener and of a call of retrier.Connect, and uvars
lvars == <<listener, retrier, uvars>>

vars == <<inv, store, cache, calls, consumer, mu, pc, rebind, msgs, broker,
          outputChan, msg,
          listener, retrier, health, group, validate, publisher>>

(* ---------------------------------------------------------------------- *)
(* Bounds and input domains                                                *)
(* ---------------------------------------------------------------------- *)

\* number of Service calls one behaviour makes
MaxCalls == 2

\* goroutines that call into the Service (the listener is the only one)
Callers == {1}

FormIds == {"f1", "f2"}

Descs == {"d0", "d1"}

Orders == {1}

(* ---------------------------------------------------------------------- *)
(* Program constants: internal/service/interfaces.go:44-45                 *)
(* ---------------------------------------------------------------------- *)

DefaultRetryAttemptsMut == 3 + 1

DefaultRetryAttempts == 3

(* ---------------------------------------------------------------------- *)
(* Data                                                                    *)
(* ---------------------------------------------------------------------- *)

NoForm == [exists |-> FALSE, closed |-> FALSE, desc |-> "d0", qs |-> {}]

Form(closed, desc, qs) == [exists |-> TRUE, closed |-> closed, desc |-> desc, qs |-> qs]

Forms == {NoForm} \cup {Form(b, d, q) : b \in BOOLEAN, d \in Descs, q \in SUBSET Orders}

\* error values: msg is the text put in front by fmt.Errorf("...: %w", err),
\* cause names the collaborator whose error is wrapped
NoErr == [msg |-> "", cause |-> "none"]

Error(m, c) == [msg |-> m, cause |-> c]

Ops == {"CreateForm", "CreateQuestion", "UpdateStatus", "Update",
        "UpdateDescription", "DeleteForm", "DeleteQuestion"}

\* the arguments of one call; isNil is the nil pointer / nil interface value,
\* badId a form id string that is no UUID
Args == [id : FormIds, isNil : BOOLEAN, badId : BOOLEAN, closed : BOOLEAN,
         desc : Descs, order : Orders]

\* the arguments an operation's signature can carry (interfaces.go: the
\* form id is a uuid.UUID)
ArgsOf(o) ==
    {a \in Args :
        /\ ~a.badId
        /\ (a.isNil => o \in {"CreateForm", "CreateQuestion", "Update"})
        /\ (o \notin {"CreateForm", "UpdateStatus", "Update"} => a.closed = FALSE)
        /\ (o \notin {"CreateForm", "UpdateDescription", "Update"} => a.desc = "d0")}

\* FORM_KEY_TEMPLATE = "form:%s"
FormKey(key) == "form:" \o key

Keys == FormIds \cup {FormKey(id) : id \in FormIds}

NoEntry == [present |-> FALSE, form |-> NoForm]

Entry(f) == [present |-> TRUE, form |-> f]

(* ---------------------------------------------------------------------- *)
(* Collaborators                                                           *)
(* ---------------------------------------------------------------------- *)

\* a write that flips the column in place of setting it
ColumnAfterUpdateFlip(cur, value) == ~cur

\* Repository.Update(id, key, value): the column takes the value passed
ColumnAfterUpdate(cur, value) == value

\* Repository write of operation o with arguments a, when the database
\* accepts it
ApplyWrite(s, o, a) ==
    CASE o = "CreateForm" -> [s EXCEPT ![a.id] = Form(a.closed, a.desc, {})]
      [] o = "CreateQuestion" ->
            IF s[a.id].exists
            THEN [s EXCEPT ![a.id].qs = @ \cup {a.order}]
            ELSE s
      [] o = "UpdateStatus" ->
            IF s[a.id].exists
            THEN [s EXCEPT ![a.id].closed = ColumnAfterUpdate(@, a.closed)]
            ELSE s
      [] o = "UpdateDescription" ->
            IF s[a.id].exists THEN [s EXCEPT ![a.id].desc = a.desc] ELSE s
      [] o = "Update" ->
            IF s[a.id].exists
            THEN [s EXCEPT ![a.id].closed = a.closed, ![a.id].desc = a.desc]
            ELSE s
      [] o = "DeleteForm" -> [s EXCEPT ![a.id] = NoForm]
      [] o = "DeleteQuestion" ->
            IF s[a.id].exists
            THEN [s EXCEPT ![a.id].qs = @ \ {a.order}]
            ELSE s

\* Repository.Get: First() fails when the row is absent, and may fail on a
\* database error
GetCanSucceed(s, id) == s[id].exists


\* Repository.Get: db.Where("ID = ?", ID).First(&form) loads the row of the
\* form alone, Questions stays nil
Get(s, id) == [s[id] EXCEPT !.qs = {}]

\* Casher.AddToCash: SET form:<key>; the redis error is returned
AddToCashErr(redisOk) == ~redisOk

\* a SET that keeps the entry the key already has
AddToCashEffectKeep(c, key, payload, redisOk) ==
    IF redisOk /\ ~c[FormKey(key)].present
    THEN [c EXCEPT ![FormKey(key)] = Entry(payload)]
    ELSE c

\* a SET under the key as passed, without the template
AddToCashEffectRawKey(c, key, payload, redisOk) ==
    IF redisOk THEN [c EXCEPT ![key] = Entry(payload)] ELSE c

AddToCashEffect(c, key, payload, redisOk) ==
    IF redisOk THEN [c EXCEPT ![FormKey(key)] = Entry(payload)] ELSE c

\* Casher.RemoveFromCash: DEL <key>; the redis error is logged, nil returned
RemoveFromCashErr(redisOk) == FALSE

RemoveFromCashEffect(c, key, redisOk) ==
    IF redisOk THEN [c EXCEPT ![key] = NoEntry] ELSE c

\* retrier.Do(attempts, delay, fn): the outcome after a call of fn that
\* returned ok, tried calls having been made including this one
Do(attempts, tried, ok) ==
    IF ok THEN "success"
    ELSE IF tried >= attempts THEN "exhausted"
    ELSE "retry"

(* ---------------------------------------------------------------------- *)
(* Service (internal/service/interfaces.go)                                *)
(* ---------------------------------------------------------------------- *)

NilMsg(o) ==
    CASE o = "CreateForm" -> "form cannot be nil"
      [] o = "CreateQuestion" -> "question cannot be nil"
      [] OTHER -> "values cannot be nil"

PersistMsg(o) ==
    CASE o = "CreateForm" -> "failed to create form in repository"
      [] o = "CreateQuestion" -> "failed to create question in repository"
      [] o = "UpdateStatus" -> "failed to update form status in repository"
      [] o = "Update" -> "failed to update form in repository"
      [] o = "UpdateDescription" -> "failed to update form description in repository"
      [] o = "DeleteForm" -> "failed to delete form from repository"
      [] OTHER -> "failed to delete question from repository"

\* a re-read after every write of an existing form, the delete included
RereadsAfterDelete(o) == o # "CreateForm"

Rereads(o) == o \notin {"CreateForm", "DeleteForm"}

CacheMsg(o) == IF o = "DeleteForm" THEN "cache removal error" ELSE "cache error"

EventName(o) ==
    CASE o = "CreateForm" -> "form.created"
      [] o = "DeleteForm" -> "form.deleted"
      [] OTHER -> "form.updated"

\* a propagation goroutine: st is its position, outs the results (TRUE = nil
\* error) of the collaborator calls retrier.Do made so far, failed whether
\* retrier.Do returned an error
IdleTask == [st |-> "idle", outs |-> <<>>, failed |-> FALSE]

RunTask == [st |-> "run", outs |-> <<>>, failed |-> FALSE]

NoArgs ==
    [id |-> "f1", isNil |-> FALSE, badId |-> FALSE, closed |-> FALSE,
     desc |-> "d0", order |-> 1]

\* one call of the Service: its position (pc), its locals (form, errChan,
\* result) and the record of the repository calls it made
\* what a caller keeps of the call it made before the current one, when that
\* call returned success
NoPrev == [op |-> "none", args |-> NoArgs, form |-> NoForm, written |-> NoForm]

\* events: the (payload, event name) pairs passed to Publish; ccalls: the
\* casher calls made, with the key passed and whether redis accepted the
\* command; wBefore / cBefore: the callers whose repository write / cache
\* write was applied before this call's; detached: the goroutines of
\* earlier calls that were still running when their call returned
IdleInv ==
    [op |-> "none", args |-> NoArgs, pc |-> "idle", form |-> NoForm,
     ctask |-> IdleTask, ptask |-> IdleTask, errChan |-> <<>>,
     result |-> NoErr, persisted |-> FALSE, written |-> NoForm,
     nWrite |-> 0, nGet |-> 0, nGetFail |-> 0,
     events |-> <<>>, ccalls |-> <<>>, prev |-> NoPrev,
     wBefore |-> {}, cBefore |-> {}, detached |-> <<>>]

Summary(r) ==
    IF r.result = NoErr
    THEN [op |-> r.op, args |-> r.args, form |-> r.form, written |-> r.written]
    ELSE NoPrev

\* the locals of a new call of operation o with arguments a, after call r
NewInv(r, o, a) == [IdleInv EXCEPT !.op = o, !.args = a, !.prev = Summary(r)]

\* the payload passed to Publish: the form, or for DeleteForm
\* struct{FormID string `json:"form_id"`}
Payload(o, a, f) ==
    IF o = "DeleteForm" THEN [kind |-> "form_id", id |-> a.id, form |-> NoForm]
    ELSE [kind |-> "form", id |-> a.id, form |-> f]

\* the callers other than c that have applied a repository write / a cache
\* write in their current call
Writers(c) == {d \in DOMAIN inv \ {c} : inv[d].persisted}

Cachers(c) ==
    {d \in DOMAIN inv \ {c} :
        \E i \in 1..Len(inv[d].ccalls) : inv[d].ccalls[i].ok}

NilCheckedMut(o) == o \in {"CreateForm", "CreateQuestion"}

NilChecked(o) == o \in {"CreateForm", "CreateQuestion", "Update"}

\* a call of the Service by caller c: entry and the nil check
Call(c, o, a) ==
    /\ inv[c].pc \in {"idle", "done"}
    /\ calls < MaxCalls
    /\ calls' = calls + 1
    /\ inv' = [inv EXCEPT ![c] =
                 IF NilChecked(o) /\ a.isNil
                 THEN [NewInv(inv[c], o, a) EXCEPT
                          !.pc = "done", !.result = Error(NilMsg(o), "argument")]
                 ELSE [NewInv(inv[c], o, a) EXCEPT !.pc = "persist"]]
    /\ UNCHANGED <<cvars, lvars, store, cache>>

AfterPersistSpawn(o, ok) == IF Rereads(o) THEN "reread" ELSE "wait"

AfterPersistRetry(o, ok) ==
    IF ~ok THEN "persist" ELSE IF Rereads(o) THEN "reread" ELSE "wait"

\* where the call goes after the repository write returned: the early
\* return, the re-read, or the two goroutines and wg.Wait()
AfterPersist(o, ok) ==
    IF ~ok THEN "done" ELSE IF Rereads(o) THEN "reread" ELSE "wait"

PersistErrorMut(o) == NoErr

\* fmt.Errorf("failed to ... in repository: %w", err)
PersistError(o) == Error(PersistMsg(o), "repository")

\* wg.Add(1); go func() twice
Spawned(r) == [r EXCEPT !.ctask = RunTask, !.ptask = RunTask]

\* the form the goroutines of CreateForm capture: the argument
FormArg(a) == Form(a.closed, a.desc, {})

\* 1. critical operation: s.repo.<write>
Persist(c) ==
    /\ inv[c].pc = "persist"
    /\ \E ok \in BOOLEAN :
         LET r == inv[c]
             s2 == IF ok THEN ApplyWrite(store, r.op, r.args) ELSE store
             nxt == AfterPersist(r.op, ok)
             r1 == [r EXCEPT !.nWrite = @ + 1, !.persisted = ok,
                             !.written = s2[r.args.id],
                             !.wBefore = IF ok THEN Writers(c) ELSE @,
                             !.form = IF r.op = "CreateForm" THEN FormArg(r.args)
                                      ELSE NoForm,
                             !.pc = nxt]
         IN  /\ store' = s2
             /\ inv' = [inv EXCEPT ![c] =
                   CASE nxt = "done" -> [r1 EXCEPT !.result = PersistError(r.op)]
                     [] nxt = "wait" -> Spawned(r1)
                     [] OTHER -> r1]
    /\ UNCHANGED <<cvars, lvars, cache, calls>>

AfterRereadMut(ok) == "wait"

AfterReread(ok) == IF ok THEN "wait" ELSE "done"

\* 2. form, err := s.repo.Get(formID)
Reread(c) ==
    /\ inv[c].pc = "reread"
    /\ \E ok \in BOOLEAN :
         /\ ok => GetCanSucceed(store, inv[c].args.id)
         /\ LET nxt == AfterReread(ok)
                r1 == [inv[c] EXCEPT !.nGet = @ + 1,
                                     !.nGetFail = IF ok THEN @ ELSE @ + 1,
                                     !.form = IF ok THEN Get(store, inv[c].args.id)
                                              ELSE NoForm,
                                     !.pc = nxt]
            IN inv' = [inv EXCEPT ![c] =
                 IF nxt = "wait"
                 THEN Spawned(r1)
                 ELSE [r1 EXCEPT !.result = Error("failed to retrieve updated form",
                                                  "repository.Get")]]
    /\ UNCHANGED <<cvars, lvars, store, cache, calls>>

\* the goroutine's state after a collaborator call that returned ok
AfterAttempt(t, attempts, ok) ==
    LET outs == Append(t.outs, ok)
        out == Do(attempts, Len(outs), ok)
    IN  [st |-> IF out = "retry" THEN "run" ELSE "ret",
         outs |-> outs,
         failed |-> out = "exhausted"]

\* the casher call of operation o: s.casher.AddToCash(ctx, id, form) or
\* s.casher.RemoveFromCash(ctx, id)
CasherCall(o, a, redisOk) ==
    [method |-> IF o = "DeleteForm" THEN "RemoveFromCash" ELSE "AddToCash",
     key |-> a.id, ok |-> redisOk]

\* one call of the casher made by retrier.Do in the cache goroutine
CacheAttempt(c) ==
    /\ inv[c].ctask.st = "run"
    /\ \E redisOk \in BOOLEAN :
         LET r == inv[c]
             del == r.op = "DeleteForm"
             err == IF del THEN RemoveFromCashErr(redisOk) ELSE AddToCashErr(redisOk)
         IN  /\ cache' = IF del
                         THEN RemoveFromCashEffect(cache, r.args.id, redisOk)
                         ELSE AddToCashEffect(cache, r.args.id, r.form, redisOk)
             /\ inv' = [inv EXCEPT
                          ![c].ctask = AfterAttempt(r.ctask, DefaultRetryAttempts, ~err),
                          ![c].ccalls = Append(@, CasherCall(r.op, r.args, redisOk)),
                          ![c].cBefore = IF redisOk THEN Cachers(c) ELSE @]
    /\ UNCHANGED <<cvars, lvars, store, calls>>

\* the cache goroutine after retrier.Do returned: errChan <- ..., wg.Done()
CacheTaskExit(c) ==
    /\ inv[c].ctask.st = "ret"
    /\ inv' = [inv EXCEPT ![c].ctask.st = "done",
                          ![c].errChan =
                             IF inv[c].ctask.failed
                             THEN Append(@, Error(CacheMsg(inv[c].op), "casher"))
                             ELSE @]
    /\ UNCHANGED <<cvars, lvars, store, cache, calls>>

\* one call of the publisher made by retrier.Do in the publish goroutine
PublishAttempt(c) ==
    /\ inv[c].ptask.st = "run"
    /\ \E ok \in BOOLEAN :
         inv' = [inv EXCEPT
                   ![c].ptask = AfterAttempt(inv[c].ptask, DefaultRetryAttempts, ok),
                   ![c].events = Append(@, [name |-> EventName(inv[c].op),
                                            payload |-> Payload(inv[c].op, inv[c].args,
                                                                inv[c].form)])]
    /\ UNCHANGED <<cvars, lvars, store, cache, calls>>

\* the publish goroutine after retrier.Do returned: errChan <- ..., wg.Done()
PublishTaskExit(c) ==
    /\ inv[c].ptask.st = "ret"
    /\ inv' = [inv EXCEPT ![c].ptask.st = "done",
                          ![c].errChan =
                             IF inv[c].ptask.failed
                             THEN Append(@, Error("publish error", "publisher"))
                             ELSE @]
    /\ UNCHANGED <<cvars, lvars, store, cache, calls>>

\* the goroutines wg.Wait() waits for
WaitDone(r) == r.ctask.st = "done" /\ r.ptask.st = "done"

FirstErrorMut(ch) == NoErr

\* for err := range errChan { return err }; return nil
FirstError(ch) == IF ch = <<>> THEN NoErr ELSE Head(ch)

WaitReturnMut(c) ==
    /\ inv[c].pc = "wait"
    /\ WaitDone(inv[c])
    /\ inv' = [inv EXCEPT ![c].pc = "done",
                          ![c].result = FirstError(inv[c].errChan)]
    /\ store' = IF inv[c].errChan = <<>> THEN store
                ELSE [store EXCEPT ![inv[c].args.id] = NoForm]
    /\ UNCHANGED <<cvars, lvars, cache, calls>>

\* wg.Wait(); close(errChan); return the first error if any
WaitReturn(c) ==
    /\ inv[c].pc = "wait"
    /\ WaitDone(inv[c])
    /\ inv' = [inv EXCEPT ![c].pc = "done",
                          ![c].result = FirstError(inv[c].errChan)]
    /\ UNCHANGED <<cvars, lvars, store, cache, calls>>

(* ---------------------------------------------------------------------- *)
(* Service (internal/service/form_service.go)                              *)
(* ---------------------------------------------------------------------- *)

\* the arguments an operation's signature can carry (form_service.go: the
\* form id is a string for the operations that call uuid.Parse)
FS_ArgsOf(o) ==
    {a \in Args :
        /\ (a.badId => o \in {"UpdateStatus", "UpdateDescription", "DeleteForm",
                              "DeleteQuestion"})
        /\ (a.isNil => o \in {"CreateForm", "CreateQuestion", "Update"})
        /\ (o \notin {"CreateForm", "UpdateStatus", "Update"} => a.closed = FALSE)
        /\ (o \notin {"CreateForm", "UpdateDescription", "Update"} => a.desc = "d0")}

FS_Parses(o) == o \in {"UpdateStatus", "UpdateDescription", "DeleteForm", "DeleteQuestion"}

FS_Rereads(o) == o \in {"CreateQuestion", "UpdateStatus", "UpdateDescription",
                        "DeleteQuestion"}

\* the call made in the goroutine; the other one is made by the caller
FS_Background(o) == IF o = "CreateQuestion" THEN "publish" ELSE "cache"

\* calls of the caller's own collaborator: retrier.Do(3, 5, ...) or one
\* plain call
FS_ForegroundAttempts(o) == IF o \in {"CreateForm", "DeleteQuestion"} THEN 1 ELSE 3

\* whether the caller reads cherr before it returns
FS_Waits(o) == o # "UpdateDescription"

FS_EventName(o) ==
    CASE o \in {"CreateForm", "UpdateStatus"} -> "form.created"
      [] o = "DeleteForm" -> "form.deleted"
      [] OTHER -> "form.updated"

\* the values Update caches and publishes in place of the form
FS_Values(a) == [closed |-> a.closed, desc |-> a.desc]

\* the payload passed to Publish: the form, the values of Update, or for
\* DeleteForm struct{FormID string}
FS_Payload(o, a, f) ==
    CASE o = "DeleteForm" -> [kind |-> "form_id", id |-> a.id, form |-> NoForm]
      [] o = "Update" -> [kind |-> "values", id |-> a.id, form |-> f]
      [] OTHER -> [kind |-> "form", id |-> a.id, form |-> f]

\* dereference of the nil argument by the caller after the repository
\* accepted it: question.FormID
FS_NilDeref(o, a) == a.isNil /\ o = "CreateQuestion"

\* dereference of the nil argument inside the goroutine: form.ID
FS_NilDerefInGoroutine(o, a) == a.isNil /\ o = "CreateForm"

\* go func() { cherr <- ... }() and the caller's own call
FS_Spawned(r) == [r EXCEPT !.pc = "fg", !.ctask = RunTask, !.ptask = RunTask]

\* the goroutine's and the caller's side of a call
FS_BackgroundTask(r) == IF FS_Background(r.op) = "cache" THEN r.ctask ELSE r.ptask

FS_ForegroundTask(r) == IF FS_Background(r.op) = "cache" THEN r.ptask ELSE r.ctask

\* the goroutines left running by the calls up to r: a call returns
\* without waiting for its goroutine when it does not read cherr
FS_Detached(r) ==
    IF FS_BackgroundTask(r).st \in {"run", "ret"}
    THEN Append(r.detached, [op |-> r.op, args |-> r.args, form |-> r.form,
                             task |-> FS_BackgroundTask(r)])
    ELSE r.detached

\* a call of the Service by caller c: entry and uuid.Parse
FS_Call(c, o, a) ==
    /\ inv[c].pc \in {"idle", "done"}
    /\ calls < MaxCalls
    /\ calls' = calls + 1
    /\ inv' = [inv EXCEPT ![c] =
                 IF FS_Parses(o) /\ a.badId
                 THEN [NewInv(inv[c], o, a) EXCEPT
                          !.pc = "done", !.result = Error("", "uuid.Parse"),
                          !.detached = FS_Detached(inv[c])]
                 ELSE [NewInv(inv[c], o, a) EXCEPT
                          !.pc = "persist", !.detached = FS_Detached(inv[c])]]
    /\ UNCHANGED <<cvars, lvars, store, cache>>

\* s.repo.<write>; its error is returned as it is
FS_Persist(c) ==
    /\ inv[c].pc = "persist"
    /\ \E ok \in BOOLEAN :
         LET r == inv[c]
             s2 == IF ok /\ ~r.args.isNil THEN ApplyWrite(store, r.op, r.args)
                   ELSE store
             r1 == [r EXCEPT !.nWrite = @ + 1, !.persisted = ok,
                             !.written = s2[r.args.id],
                             !.wBefore = IF ok THEN Writers(c) ELSE @,
                             !.form = CASE r.args.isNil -> NoForm
                                        [] r.op = "CreateForm" -> FormArg(r.args)
                                        [] r.op = "Update" -> FS_Values(r.args)
                                        [] OTHER -> NoForm]
         IN  /\ store' = s2
             /\ inv' = [inv EXCEPT ![c] =
                   CASE ~ok -> [r1 EXCEPT !.pc = "done",
                                          !.result = Error("", "repository")]
                     [] FS_NilDeref(r.op, r.args) -> [r1 EXCEPT !.pc = "panic"]
                     [] FS_Rereads(r.op) -> [r1 EXCEPT !.pc = "reread"]
                     [] OTHER -> FS_Spawned(r1)]
    /\ UNCHANGED <<cvars, lvars, cache, calls>>

\* form, err := s.repo.Get(uid); its error is returned as it is
FS_Reread(c) ==
    /\ inv[c].pc = "reread"
    /\ \E ok \in BOOLEAN :
         /\ ok => GetCanSucceed(store, inv[c].args.id)
         /\ LET r1 == [inv[c] EXCEPT !.nGet = @ + 1,
                                     !.nGetFail = IF ok THEN @ ELSE @ + 1]
            IN inv' = [inv EXCEPT ![c] =
                 IF ok
                 THEN FS_Spawned([r1 EXCEPT !.form = Get(store, r1.args.id)])
                 ELSE [r1 EXCEPT !.pc = "done",
                                 !.result = Error("", "repository.Get")]]
    /\ UNCHANGED <<cvars, lvars, store, cache, calls>>

\* the number of calls the cache side / the publish side may make
FS_Attempts(o, side) ==
    IF side = FS_Background(o) THEN 3 ELSE FS_ForegroundAttempts(o)

\* one call of the casher, in the goroutine or (CreateQuestion) by the
\* caller; the goroutine of CreateForm reads form.ID first
FS_CacheAttempt(c) ==
    /\ inv[c].ctask.st = "run"
    /\ inv[c].pc # "panic"
    /\ \E redisOk \in BOOLEAN :
         LET r == inv[c]
             del == r.op = "DeleteForm"
             err == IF del THEN RemoveFromCashErr(redisOk) ELSE AddToCashErr(redisOk)
         IN  IF FS_NilDerefInGoroutine(r.op, r.args)
             THEN /\ cache' = cache
                  /\ inv' = [inv EXCEPT ![c].pc = "panic"]
             ELSE /\ cache' = IF del
                              THEN RemoveFromCashEffect(cache, r.args.id, redisOk)
                              ELSE AddToCashEffect(cache, r.args.id, r.form, redisOk)
                  /\ inv' = [inv EXCEPT
                               ![c].ctask = AfterAttempt(r.ctask,
                                                         FS_Attempts(r.op, "cache"), ~err),
                               ![c].ccalls = Append(@, CasherCall(r.op, r.args, redisOk)),
                               ![c].cBefore = IF redisOk THEN Cachers(c) ELSE @]
    /\ UNCHANGED <<cvars, lvars, store, calls>>

\* one call of the publisher, by the caller or (CreateQuestion) in the
\* goroutine
FS_PublishAttempt(c) ==
    /\ inv[c].ptask.st = "run"
    /\ inv[c].pc # "panic"
    /\ \E ok \in BOOLEAN :
         inv' = [inv EXCEPT
                   ![c].ptask = AfterAttempt(inv[c].ptask,
                                             FS_Attempts(inv[c].op, "publish"), ok),
                   ![c].events = Append(@, [name |-> FS_EventName(inv[c].op),
                                            payload |-> FS_Payload(inv[c].op, inv[c].args,
                                                                   inv[c].form)])]
    /\ UNCHANGED <<cvars, lvars, store, cache, calls>>

FS_TaskError(t, side) ==
    IF t.failed THEN Error("", IF side = "cache" THEN "casher" ELSE "publisher")
    ELSE NoErr

\* the goroutine after its call returned: cherr <- err (buffered, never
\* blocks), then it ends
FS_BackgroundExit(c) ==
    /\ FS_BackgroundTask(inv[c]).st = "ret"
    /\ inv[c].pc # "panic"
    /\ LET r == inv[c]
           side == FS_Background(r.op)
           r1 == [r EXCEPT !.errChan = Append(@, FS_TaskError(FS_BackgroundTask(r), side))]
       IN inv' = [inv EXCEPT ![c] =
                    IF side = "cache" THEN [r1 EXCEPT !.ctask.st = "done"]
                    ELSE [r1 EXCEPT !.ptask.st = "done"]]
    /\ UNCHANGED <<cvars, lvars, store, cache, calls>>

\* the caller after its own call returned: return its error, or go on to
\* read cherr, or (UpdateDescription) return nil
FS_ForegroundDone(c) ==
    /\ inv[c].pc = "fg"
    /\ FS_ForegroundTask(inv[c]).st = "ret"
    /\ LET r == inv[c]
           t == FS_ForegroundTask(r)
           side == IF FS_Background(r.op) = "cache" THEN "publish" ELSE "cache"
           r1 == IF side = "cache" THEN [r EXCEPT !.ctask.st = "done"]
                 ELSE [r EXCEPT !.ptask.st = "done"]
       IN inv' = [inv EXCEPT ![c] =
                    CASE t.failed -> [r1 EXCEPT !.pc = "done",
                                                !.result = FS_TaskError(t, side)]
                      [] FS_Waits(r.op) -> [r1 EXCEPT !.pc = "recv"]
                      [] OTHER -> [r1 EXCEPT !.pc = "done", !.result = NoErr]]
    /\ UNCHANGED <<cvars, lvars, store, cache, calls>>

\* return <-cherr
FS_Receive(c) ==
    /\ inv[c].pc = "recv"
    /\ inv[c].errChan # <<>>
    /\ inv' = [inv EXCEPT ![c].pc = "done", ![c].result = Head(inv[c].errChan)]
    /\ UNCHANGED <<cvars, lvars, store, cache, calls>>

\* the sequence q without its i-th element
Without(q, i) == [j \in 1..(Len(q) - 1) |-> IF j < i THEN q[j] ELSE q[j + 1]]

\* one collaborator call of a goroutine whose call has returned already
FS_DetachedAttempt(c, i) ==
    /\ i \in DOMAIN inv[c].detached
    /\ inv[c].pc # "panic"
    /\ inv[c].detached[i].task.st = "run"
    /\ \E ok \in BOOLEAN :
         LET d == inv[c].detached[i]
             del == d.op = "DeleteForm"
             err == CASE FS_Background(d.op) = "publish" -> ~ok
                      [] del -> RemoveFromCashErr(ok)
                      [] OTHER -> AddToCashErr(ok)
         IN  CASE FS_NilDerefInGoroutine(d.op, d.args) ->
                    /\ cache' = cache
                    /\ inv' = [inv EXCEPT ![c].pc = "panic"]
               [] OTHER ->
                    /\ cache' = CASE FS_Background(d.op) = "publish" -> cache
                                  [] del -> RemoveFromCashEffect(cache, d.args.id, ok)
                                  [] OTHER -> AddToCashEffect(cache, d.args.id,
                                                              d.form, ok)
                    /\ inv' = [inv EXCEPT ![c].detached[i].task =
                                  AfterAttempt(d.task, FS_Attempts(d.op, FS_Background(d.op)),
                                               ~err)]
    /\ UNCHANGED <<cvars, lvars, store, calls>>

\* that goroutine after its call returned: cherr <- err (buffered, read by
\* nobody), then it ends
FS_DetachedExit(c, i) ==
    /\ i \in DOMAIN inv[c].detached
    /\ inv[c].pc # "panic"
    /\ inv[c].detached[i].task.st = "ret"
    /\ inv' = [inv EXCEPT ![c].detached = Without(@, i)]
    /\ UNCHANGED <<cvars, lvars, store, cache, calls>>

(* ---------------------------------------------------------------------- *)
(* Consumer (pkg/transport/casher/casher.go:173-542, package consumer)     *)
(* ---------------------------------------------------------------------- *)

\* the goroutine of ConsumeMessages, and the goroutine (main) that calls
\* Subscribe
Threads == {"loop", "main"}

\* cfg.Exchange.Request, and one more exchange a caller may subscribe to
RequestExchange == "request"

Exchanges == {RequestExchange, "other"}

EXCHANGE_TYPE == "direct"

RoutingKeys == {"request.*", EXCHANGE_TYPE}

\* capacity of the channel ConsumeMessages fills (main.go: 100)
OutputCap == 2

\* the number of events the Listener is followed through
MaxHandled == 3

\* the largest retry argument of retrier.Connect tried
MaxRetry == 2

\* the largest count argument of retrier.MultiConnects tried
MaxCount == 2

\* the largest number of healthers given to NewHealthChecker
MaxHealthers == 3

\* the largest number of closers given to NewCloserGroup
MaxClosers == 3

NoEvent == [ID |-> "", Type |-> ""]

Events == [ID : {"id1"}, Type : {"t1", "t2"}]

\* message bodies: the JSON of an event, or bytes that are no JSON
RawMsgs ==
    {[json |-> TRUE, event |-> e] : e \in Events}
        \cup {[json |-> FALSE, event |-> NoEvent]}

UnmarshalLenient(m) == [err |-> FALSE, event |-> m.event]

\* json.Unmarshal(msg.Body, event)
Unmarshal(m) ==
    [err |-> ~m.json, event |-> IF m.json THEN m.event ELSE NoEvent]

\* a connection handle: nil, the connection passed to Init, one returned by
\* amqp.Dial in reconnect, or a handle whose connection is closed
IsOpen(conn) == conn \in {"initial", "redialed"}

\* the goroutines inside a c.mu.Lock() call; sync.RWMutex makes RLock wait
\* while a Lock call is waiting
Pending ==
    {t \in Threads :
        pc[t] \in {"handleReconnection_Lock", "Subscribe_Lock", "Close_Lock"}}

\* c.mu.RLock() called by t does not return: the lock is write-locked (by t
\* itself included, sync.RWMutex is not reentrant) or a Lock call is waiting
RLockBlocks(t) == mu.writer # "none" \/ Pending \ {t} # {}

\* a lock whose Lock() returns at once whoever holds it
LockNeverBlocksIn(m) == FALSE

\* c.mu.Lock() called by t does not return: the lock is held (a read lock
\* of t itself included)
LockBlocksIn(m) == m.writer # "none" \/ m.readers # {}

LockBlocks(t) == LockBlocksIn(mu)

\* a cleanup that drops the handles and keeps the flag
cleanupHandles(c) == [c EXCEPT !.channel = "nil", !.conn = "nil"]

\* Consumer.cleanup
cleanup(c) == [c EXCEPT !.isConnected = FALSE, !.channel = "nil", !.conn = "nil"]

\* the AMQP channel is closed: the delivery channels its Consume calls
\* returned are closed with it
ChannelCloses(ms) ==
    [t \in Threads |-> IF ms[t] = "open" THEN "closed" ELSE ms[t]]

\* what the broker holds for a connection just opened: nothing declared or
\* bound over it
FreshConnection(b) == [b EXCEPT !.declared = {}, !.bound = {}]

\* Consumer.IsHealthy, the lock apart
Healthy(c) == c.isConnected /\ c.conn # "nil" /\ IsOpen(c.conn)

\* go consumer.ConsumeMessages(eventChan): outputChan is not nil
ConsumeMessages(t) ==
    /\ t = "loop" /\ pc[t] = "start"
    /\ pc' = [pc EXCEPT ![t] = "IsHealthy"]
    /\ UNCHANGED <<svars, lvars, rebind, msgs, msg, consumer, mu, broker, outputChan>>

\* top of the loop: if !c.IsHealthy() (RLock, read, RUnlock)
CheckHealth(t) ==
    /\ pc[t] = "IsHealthy"
    /\ ~RLockBlocks(t)
    /\ pc' = [pc EXCEPT ![t] = IF Healthy(consumer) THEN "rebindExchanges"
                                ELSE "handleReconnection"]
    /\ UNCHANGED <<svars, lvars, rebind, msgs, msg, consumer, mu, broker, outputChan>>

\* handleReconnection without c.mu.Lock() and without the flag test
handleReconnectionUnguarded(t) ==
    /\ pc[t] \in {"handleReconnection", "handleReconnection_Lock"}
    /\ pc' = [pc EXCEPT ![t] = "reconnect"]
    /\ consumer' = [consumer EXCEPT !.reconnecting = TRUE]
    /\ UNCHANGED <<svars, lvars, rebind, msgs, msg, mu, broker, outputChan>>

\* handleReconnection up to the call of reconnect: c.mu.Lock(), which
\* waits at "handleReconnection_Lock" while the lock is held, then the
\* reconnecting flag
handleReconnection(t) ==
    /\ pc[t] \in {"handleReconnection", "handleReconnection_Lock"}
    /\ CASE LockBlocks(t) ->
              /\ pc[t] = "handleReconnection"
              /\ pc' = [pc EXCEPT ![t] = "handleReconnection_Lock"]
              /\ UNCHANGED <<consumer, mu>>
         [] ~LockBlocks(t) /\ consumer.reconnecting ->
              /\ pc' = [pc EXCEPT ![t] = "Sleep"]
              /\ UNCHANGED <<consumer, mu>>
         [] OTHER ->
              /\ pc' = [pc EXCEPT ![t] = "reconnect"]
              /\ mu' = [mu EXCEPT !.writer = t]
              /\ consumer' = [consumer EXCEPT !.reconnecting = TRUE]
    /\ UNCHANGED <<svars, lvars, rebind, msgs, msg, broker, outputChan>>

\* the deferred calls of handleReconnection: reconnecting = false, Unlock
Returned(c) == [c EXCEPT !.reconnecting = FALSE]

Unlocked(m) == [m EXCEPT !.writer = "none"]

\* reconnect, lines 510-526, once RLock has returned: every registered
\* exchange is redeclared (declareExchange locks c.mu for each), then
\* isConnected = true
Redeclare(c, declOk) ==
    IF declOk THEN [c EXCEPT !.isConnected = TRUE] ELSE cleanup(c)

\* reconnect, called by handleReconnection with c.mu write-locked:
\* c.cleanup()
reconnect(t) ==
    /\ pc[t] = "reconnect"
    /\ consumer' = cleanup(consumer)
    /\ msgs' = IF consumer.channel # "nil" THEN ChannelCloses(msgs) ELSE msgs
    /\ pc' = [pc EXCEPT ![t] = "reconnect_Dial"]
    /\ UNCHANGED <<svars, lvars, rebind, msg, mu, broker, outputChan>>

\* reconnect: amqp.Dial returns, c.conn = conn or the error is returned
reconnectDial(t) ==
    /\ pc[t] = "reconnect_Dial"
    /\ \E dialOk \in BOOLEAN :
         /\ dialOk => broker.up
         /\ IF dialOk
            THEN /\ consumer' = [consumer EXCEPT !.conn = "redialed"]
                 /\ mu' = mu
                 /\ pc' = [pc EXCEPT ![t] = "reconnect_Channel"]
                 /\ broker' = FreshConnection(broker)
            ELSE /\ consumer' = Returned(consumer)
                 /\ mu' = Unlocked(mu)
                 /\ pc' = [pc EXCEPT ![t] = "Sleep"]
                 /\ broker' = broker
    /\ UNCHANGED <<svars, lvars, rebind, msgs, msg, outputChan>>

\* reconnect: initializeChannel returns (on its error c.conn.Close()), then
\* c.mu.RLock()
reconnectChannel(t) ==
    /\ pc[t] = "reconnect_Channel"
    /\ \E chanOk, declOk \in BOOLEAN :
         /\ chanOk => (broker.up /\ consumer.conn = "redialed")
         /\ declOk => chanOk
         /\ LET opened == [consumer EXCEPT !.channel = "open"]
            IN  CASE ~chanOk ->
                       /\ consumer' = Returned([consumer EXCEPT !.conn = "closed"])
                       /\ mu' = Unlocked(mu)
                       /\ pc' = [pc EXCEPT ![t] = "Sleep"]
                       /\ broker' = broker
                  [] chanOk /\ RLockBlocks(t) ->
                       /\ ~declOk
                       /\ consumer' = opened
                       /\ mu' = mu
                       /\ pc' = [pc EXCEPT ![t] = "reconnect_RLock"]
                       /\ broker' = broker
                  [] OTHER ->
                       /\ consumer' = Returned(Redeclare(opened, declOk))
                       /\ mu' = Unlocked(mu)
                       /\ pc' = [pc EXCEPT ![t] = IF declOk THEN "rebindExchanges"
                                                   ELSE "Sleep"]
                       /\ broker' = [broker EXCEPT
                                        !.declared = IF declOk THEN opened.exchanges
                                                     ELSE {}]
    /\ UNCHANGED <<svars, lvars, rebind, msgs, msg, outputChan>>

\* time.Sleep(DEFAULT_RECONNECT_DELAY), then the next iteration
Sleep(t) ==
    /\ pc[t] = "Sleep"
    /\ pc' = [pc EXCEPT ![t] = "IsHealthy"]
    /\ UNCHANGED <<svars, lvars, rebind, msgs, msg, consumer, mu, broker, outputChan>>

\* the bindings rebindExchanges asks for: QueueBind(cfg.Queue.Request,
\* EXCHANGE_TYPE, exchange)
Rebound(exchanges) == {[exchange |-> e, key |-> EXCHANGE_TYPE] : e \in exchanges}

\* rebindExchanges, lines 465-467: c.mu.RLock() has returned and the
\* registered set is being iterated
rebindExchanges(t) ==
    /\ pc[t] = "rebindExchanges"
    /\ ~RLockBlocks(t)
    /\ mu' = [mu EXCEPT !.readers = @ \cup {t}]
    /\ pc' = [pc EXCEPT ![t] = "rebindExchanges_range"]
    /\ UNCHANGED <<svars, lvars, rebind, msgs, msg, consumer, broker, outputChan>>

\* rebindExchanges, lines 468-470: the copy is complete, c.mu.RUnlock()
rebindExchangesRUnlock(t) ==
    /\ pc[t] = "rebindExchanges_range"
    /\ mu' = [mu EXCEPT !.readers = @ \ {t}]
    /\ rebind' = [rebind EXCEPT ![t] = consumer.exchanges]
    /\ pc' = [pc EXCEPT ![t] = IF consumer.exchanges = {} THEN "startConsuming"
                                ELSE "rebindExchanges_QueueBind"]
    /\ UNCHANGED <<svars, lvars, msgs, msg, consumer, broker, outputChan>>

\* rebindExchanges, lines 472-485: one c.channel.QueueBind of the loop over
\* the copy, made without the lock; its error ends the loop.  A method call
\* on a nil *amqp.Channel is a nil pointer dereference
rebindExchangesBind(t) ==
    /\ pc[t] = "rebindExchanges_QueueBind"
    /\ \E e \in rebind[t], ok \in BOOLEAN :
         /\ ok => (broker.up /\ consumer.channel = "open")
         /\ LET rest == rebind[t] \ {e}
            IN  CASE consumer.channel = "nil" ->
                       /\ pc' = [pc EXCEPT ![t] = "panic"]
                       /\ UNCHANGED <<rebind, broker>>
                  [] ~ok ->
                       /\ pc' = [pc EXCEPT ![t] = "Sleep"]
                       /\ rebind' = [rebind EXCEPT ![t] = {}]
                       /\ broker' = broker
                  [] OTHER ->
                       /\ pc' = [pc EXCEPT ![t] = IF rest = {} THEN "startConsuming"
                                                   ELSE @]
                       /\ rebind' = [rebind EXCEPT ![t] = rest]
                       /\ broker' = [broker EXCEPT !.bound = @ \cup Rebound({e})]
    /\ UNCHANGED <<svars, lvars, msgs, msg, consumer, mu, outputChan>>

\* startConsuming: c.channel.Consume(...)
startConsuming(t) ==
    /\ pc[t] = "startConsuming"
    /\ \E ok \in BOOLEAN :
         /\ ok => (broker.up /\ consumer.channel = "open")
         /\ pc' = [pc EXCEPT ![t] =
                     CASE ok -> "range"
                       [] consumer.channel = "nil" -> "panic"
                       [] OTHER -> "Sleep"]
         /\ msgs' = [msgs EXCEPT ![t] = IF ok THEN "open" ELSE @]
    /\ UNCHANGED <<svars, lvars, rebind, msg, consumer, mu, broker, outputChan>>

\* for msg := range msgs, processMessage(msg): decode, then a non-blocking
\* send to outputChan; msg is the message taken last from the stream. The
\* send case of the select panics when outputChan has been closed
processMessage(t, m) ==
    /\ pc[t] = "range"
    /\ msgs[t] = "open"
    /\ LET u == Unmarshal(m)
       IN  /\ outputChan' = IF ~u.err /\ ~listener.closed
                                /\ Len(outputChan) < OutputCap
                             THEN Append(outputChan, u.event)
                             ELSE outputChan
           /\ pc' = [pc EXCEPT ![t] = IF ~u.err /\ listener.closed
                                       THEN "panic" ELSE @]
    /\ msg' = <<m>>
    /\ UNCHANGED <<svars, lvars, rebind, msgs, consumer, mu, broker>>

\* for msg := range msgs ends when msgs is closed: startConsuming returns
\* "message channel closed", ConsumeMessages sleeps
RangeEnds(t) ==
    /\ pc[t] = "range"
    /\ msgs[t] = "closed"
    /\ pc' = [pc EXCEPT ![t] = "Sleep"]
    /\ msgs' = [msgs EXCEPT ![t] = "none"]
    /\ UNCHANGED <<svars, lvars, rebind, msg, consumer, mu, broker, outputChan>>

\* Subscribe(exchange, routingKey, queueName): RLock with a deferred
\* RUnlock, QueueDeclare, QueueBind, then c.mu.Lock() to track the exchange
Subscribe(t, exchange, routingKey) ==
    /\ t = "main" /\ pc[t] = "start"
    /\ ~RLockBlocks(t)
    /\ \E declOk, bindOk \in BOOLEAN :
         /\ declOk => (consumer.isConnected /\ broker.up /\ consumer.channel = "open")
         /\ bindOk => declOk
         /\ LET held == [mu EXCEPT !.readers = @ \cup {t}]
                bound == [broker EXCEPT !.bound =
                             @ \cup {[exchange |-> exchange, key |-> routingKey]}]
            IN  CASE ~bindOk ->
                       /\ pc' = [pc EXCEPT ![t] = "returned"]
                       /\ UNCHANGED <<consumer, mu, broker>>
                  [] bindOk /\ LockBlocksIn(held) ->
                       /\ pc' = [pc EXCEPT ![t] = "Subscribe_Lock"]
                       /\ mu' = held
                       /\ broker' = bound
                       /\ consumer' = consumer
                  [] OTHER ->
                       /\ pc' = [pc EXCEPT ![t] = "returned"]
                       /\ mu' = mu
                       /\ broker' = bound
                       /\ consumer' = [consumer EXCEPT !.exchanges = @ \cup {exchange}]
    /\ UNCHANGED <<svars, lvars, rebind, msgs, msg, outputChan>>

\* Close, called at shutdown: c.mu.Lock(), which waits at "Close_Lock"
\* while the lock is held, isConnected = false, channel.Close(),
\* conn.Close(); the fields keep their handles
Close(t) ==
    /\ t = "main" /\ pc[t] \in {"start", "returned", "Close_Lock"}
    /\ IF LockBlocks(t)
       THEN /\ pc[t] # "Close_Lock"
            /\ pc' = [pc EXCEPT ![t] = "Close_Lock"]
            /\ UNCHANGED <<consumer, msgs>>
       ELSE /\ pc' = [pc EXCEPT ![t] = "closed"]
            /\ consumer' = [consumer EXCEPT
                   !.isConnected = FALSE,
                   !.channel = IF @ = "nil" THEN "nil" ELSE "closed",
                   !.conn = IF @ = "nil" THEN "nil" ELSE "closed"]
            /\ msgs' = IF consumer.channel # "nil" \/ consumer.conn # "nil"
                       THEN ChannelCloses(msgs) ELSE msgs
    /\ UNCHANGED <<svars, lvars, rebind, msg, mu, broker, outputChan>>

\* the connection is lost: conn.IsClosed() turns true and the message
\* channel of the AMQP channel is closed
ConnectionClosed ==
    /\ IsOpen(consumer.conn)
    /\ consumer' = [consumer EXCEPT
                       !.conn = "closed",
                       !.channel = IF @ = "open" THEN "closed" ELSE @]
    /\ msgs' = ChannelCloses(msgs)
    /\ UNCHANGED <<svars, lvars, rebind, msg, mu, pc, broker, outputChan>>

\* the AMQP channel is closed while the connection stays open
ChannelClosed ==
    /\ consumer.channel = "open"
    /\ consumer' = [consumer EXCEPT !.channel = "closed"]
    /\ msgs' = ChannelCloses(msgs)
    /\ UNCHANGED <<svars, lvars, rebind, msg, mu, pc, broker, outputChan>>

\* the broker stops / starts accepting connections
BrokerDown ==
    /\ broker.up
    /\ broker' = [broker EXCEPT !.up = FALSE]
    /\ UNCHANGED <<svars, lvars, rebind, msgs, msg, consumer, mu, pc, outputChan>>

BrokerUp ==
    /\ ~broker.up
    /\ broker' = [broker EXCEPT !.up = TRUE]
    /\ UNCHANGED <<svars, lvars, rebind, msgs, msg, consumer, mu, pc, outputChan>>

\* Listener.Listen: case event := <-list.inputChan
ListenReceive ==
    /\ outputChan # <<>>
    /\ outputChan' = Tail(outputChan)
    /\ UNCHANGED <<svars, lvars, rebind, msgs, msg, consumer, mu, pc, broker>>

(* ---------------------------------------------------------------------- *)
(* Consumer (pkg/consumer/consumer.go): no lock, no tracked exchanges,     *)
(* a blocking send to outputChan                                           *)
(* ---------------------------------------------------------------------- *)

\* go consumer.ConsumeMessages(eventChan)
CG_ConsumeMessages(t) ==
    /\ t = "loop" /\ pc[t] = "start"
    /\ pc' = [pc EXCEPT ![t] = "IsClosed"]
    /\ UNCHANGED <<svars, lvars, rebind, msgs, msg, consumer, mu, broker, outputChan>>

\* top of the loop: if p.conn.IsClosed(); p.conn is nil after a failed Dial
CG_CheckClosed(t) ==
    /\ pc[t] = "IsClosed"
    /\ pc' = [pc EXCEPT ![t] = CASE consumer.conn = "nil" -> "panic"
                                 [] IsOpen(consumer.conn) -> "QueueDeclare"
                                 [] OTHER -> "reconnect"]
    /\ UNCHANGED <<svars, lvars, rebind, msgs, msg, consumer, mu, broker, outputChan>>

\* reconnect: close the channel, Dial, Channel, redeclare p.exchanges (the
\* errors of ExchangeDeclare are logged only); declared are the exchanges
\* the broker accepted
CG_reconnect(t) ==
    /\ pc[t] = "reconnect"
    /\ \E dialOk, chanOk \in BOOLEAN : \E declared \in SUBSET consumer.exchanges :
         /\ dialOk => broker.up
         /\ chanOk => dialOk
         /\ declared # {} => chanOk
         /\ consumer' = [consumer EXCEPT
                            !.conn = CASE ~dialOk -> "nil"
                                       [] ~chanOk -> "closed"
                                       [] OTHER -> "redialed",
                            !.channel = CASE ~dialOk -> IF @ = "nil" THEN "nil"
                                                        ELSE "closed"
                                          [] ~chanOk -> "nil"
                                          [] OTHER -> "open"]
         /\ broker' = IF dialOk
                      THEN [FreshConnection(broker) EXCEPT !.declared = declared]
                      ELSE broker
         /\ pc' = [pc EXCEPT ![t] = IF chanOk THEN "QueueDeclare" ELSE "Sleep"]
    /\ UNCHANGED <<svars, lvars, rebind, msgs, msg, mu, outputChan>>

\* time.Sleep(5 * time.Second); continue
CG_Sleep(t) ==
    /\ pc[t] = "Sleep"
    /\ pc' = [pc EXCEPT ![t] = "IsClosed"]
    /\ UNCHANGED <<svars, lvars, rebind, msgs, msg, consumer, mu, broker, outputChan>>

\* QueueDeclare("que"), then QueueBind(queue.Name, "", exchange) for each
\* tracked exchange, its error logged only
CG_QueueDeclare(t) ==
    /\ pc[t] = "QueueDeclare"
    /\ \E ok \in BOOLEAN : \E done \in SUBSET consumer.exchanges :
         /\ ok => (broker.up /\ consumer.channel = "open")
         /\ done # {} => ok
         /\ broker' = [broker EXCEPT !.bound =
                          @ \cup {[exchange |-> e, key |-> ""] : e \in done}]
         /\ pc' = [pc EXCEPT ![t] = IF ok THEN "Consume" ELSE "Sleep"]
    /\ UNCHANGED <<svars, lvars, rebind, msgs, msg, consumer, mu, outputChan>>

\* p.channel.Consume(queue.Name, ...)
CG_Consume(t) ==
    /\ pc[t] = "Consume"
    /\ \E ok \in BOOLEAN :
         /\ ok => (broker.up /\ consumer.channel = "open")
         /\ pc' = [pc EXCEPT ![t] = IF ok THEN "range" ELSE "Sleep"]
    /\ UNCHANGED <<svars, lvars, rebind, msgs, msg, consumer, mu, broker, outputChan>>

\* for msg := range msgs: json.Unmarshal; a body that is no JSON is logged
\* and skipped, a decoded event is about to be sent
CG_Receive(t, m) ==
    /\ pc[t] = "range"
    /\ consumer.channel = "open"
    /\ msg' = <<m>>
    /\ pc' = [pc EXCEPT ![t] = IF Unmarshal(m).err THEN "range" ELSE "send"]
    /\ UNCHANGED <<svars, lvars, rebind, msgs, consumer, mu, broker, outputChan>>

\* outputChan <- event: returns once the channel has room
CG_Send(t) ==
    /\ pc[t] = "send"
    /\ Len(outputChan) < OutputCap
    /\ outputChan' = Append(outputChan, Unmarshal(msg[1]).event)
    /\ msg' = <<>>
    /\ pc' = [pc EXCEPT ![t] = "range"]
    /\ UNCHANGED <<svars, lvars, rebind, msgs, consumer, mu, broker>>

\* range msgs ends: "rabbitmq channel closed, reconnecting...", Sleep
CG_RangeEnds(t) ==
    /\ pc[t] = "range"
    /\ consumer.channel # "open"
    /\ pc' = [pc EXCEPT ![t] = "Sleep"]
    /\ UNCHANGED <<svars, lvars, rebind, msgs, msg, consumer, mu, broker, outputChan>>

\* Subscribe(queueName, exchange, routingKey): QueueDeclare, QueueBind
CG_Subscribe(t, exchange, routingKey) ==
    /\ t = "main" /\ pc[t] = "start"
    /\ \E declOk, bindOk \in BOOLEAN :
         /\ declOk => (broker.up /\ consumer.channel = "open")
         /\ bindOk => declOk
         /\ broker' = IF bindOk
                      THEN [broker EXCEPT !.bound =
                               @ \cup {[exchange |-> exchange, key |-> routingKey]}]
                      ELSE broker
    /\ pc' = [pc EXCEPT ![t] = IF consumer.channel = "nil" THEN "panic"
                                ELSE "returned"]
    /\ UNCHANGED <<svars, lvars, rebind, msgs, msg, consumer, mu, outputChan>>

(* ---------------------------------------------------------------------- *)
(* Listener (pkg/transport/listener): the loop that takes events from the  *)
(* channel and calls the Service                                           *)
(* ---------------------------------------------------------------------- *)

\* cfg.Reqs as config.Init fills it
CreateRequestType == "request.form.created"

UpdateRequestType == "request.form.updated"

DeleteQuestionRequestType == "request.question.deleted"

DeleteFormRequestType == "request.form.deleted"

ReqTypes == {CreateRequestType, UpdateRequestType, DeleteQuestionRequestType,
             DeleteFormRequestType}

\* event.Payload: the JSON of a form, the JSON object {"form_id": <uuid>},
\* the JSON null, or bytes that are no JSON
Payloads == {"form", "form_id", "null", "garbage"}

\* the events the Listener is given: the configured types and one more
Envelopes == [Type : ReqTypes \cup {"request.other"}, Payload : Payloads]

\* what a receive from the closed inputChan yields: the zero Event
ZeroEvent == [Type |-> "", Payload |-> "nil"]

NoCall == <<>>

\* json.Unmarshal(event.Payload, &form) returns nil: any JSON does, null
\* makes form the nil pointer
UnmarshalsForm(payload) == payload \in {"form", "form_id", "null"}

\* sonic.Unmarshal(event.Payload, req) and uuid.Parse(req.FormID) both
\* return nil: the object must carry a form_id that is a UUID
UnmarshalsFormId(payload) == payload = "form_id"

\* one pass through the switch of Listen for the event e; ok says whether
\* the Service call, if one is made, returns nil.  called is the sequence of
\* Service methods called, failed says that a branch ended in its error
\* path, panics that form.ID was read with form = nil
Switch(e, ok) ==
    CASE e.Type = CreateRequestType ->
           IF UnmarshalsForm(e.Payload)
           THEN [called |-> <<"CreateForm">>, failed |-> ~ok, panics |-> FALSE]
           ELSE [called |-> NoCall, failed |-> TRUE, panics |-> FALSE]
      [] e.Type = UpdateRequestType ->
           IF ~UnmarshalsForm(e.Payload)
           THEN [called |-> NoCall, failed |-> TRUE, panics |-> FALSE]
           ELSE IF e.Payload = "null"
           THEN [called |-> NoCall, failed |-> FALSE, panics |-> TRUE]
           ELSE [called |-> <<"Update">>, failed |-> ~ok, panics |-> FALSE]
      [] e.Type = DeleteFormRequestType ->
           IF UnmarshalsFormId(e.Payload)
           THEN [called |-> <<"DeleteForm">>, failed |-> ~ok, panics |-> FALSE]
           ELSE [called |-> NoCall, failed |-> TRUE, panics |-> FALSE]
      [] OTHER -> [called |-> NoCall, failed |-> FALSE, panics |-> FALSE]

\* where Listen goes after an event: every error path is a continue, a
\* nil dereference ends the goroutine and the process
AfterEvent(r) == IF r.panics THEN "panic" ELSE "select"

\* where Listen is once the switch has chosen its branch if the Service
\* call were started in a goroutine of its own
InSwitchAsync(r) == AfterEvent(r)

\* where Listen is once the switch has chosen its branch: inside the
\* Service call, which it makes itself, or after the event
InSwitch(r) == IF r.called # NoCall THEN "call" ELSE AfterEvent(r)

\* an event on list.inputChan; ID is the position at which it was sent
Sent(e, n) == [ID |-> n, Type |-> e.Type, Payload |-> e.Payload]

\* the head of list.inputChan, the zero Event once it is closed and empty
Front(ch) == IF ch # <<>> THEN Head(ch) ELSE Sent(ZeroEvent, 0)

IdleListener ==
    [pc |-> "start", closed |-> FALSE, event |-> ZeroEvent, called |-> NoCall,
     failed |-> FALSE, handled |-> 0, sent |-> 0, started |-> <<>>,
     running |-> {}]

\* go list.Listen(ctx)
Listen ==
    /\ listener.pc = "start"
    /\ listener' = [listener EXCEPT !.pc = "select"]
    /\ UNCHANGED <<svars, cvars, retrier, uvars>>

\* the sender's side of list.inputChan: an event is put on the channel
InputChanSend(e) ==
    /\ ~listener.closed
    /\ listener.sent < MaxHandled
    /\ Len(outputChan) < OutputCap
    /\ outputChan' = Append(outputChan, Sent(e, listener.sent + 1))
    /\ listener' = [listener EXCEPT !.sent = @ + 1]
    /\ UNCHANGED <<svars, consumer, mu, pc, rebind, msgs, broker, msg, retrier, uvars>>

\* case event := <-list.inputChan: the switch on event.Type up to the
\* Service call of its branch, or to its end when the branch makes none
ListenEvent ==
    /\ listener.pc = "select"
    /\ listener.handled + Cardinality(listener.running) < MaxHandled
    /\ outputChan # <<>> \/ listener.closed
    /\ LET s == Front(outputChan)
           e == [Type |-> s.Type, Payload |-> s.Payload]
           r == Switch(e, TRUE)
           makesCall == r.called # NoCall
       IN  listener' = [listener EXCEPT
                           !.pc = InSwitch(r),
                           !.event = e,
                           !.called = r.called,
                           !.failed = IF makesCall THEN FALSE ELSE r.failed,
                           !.handled = IF makesCall THEN @ ELSE @ + 1,
                           !.started = IF makesCall THEN Append(@, s.ID) ELSE @,
                           !.running = IF makesCall THEN @ \cup {s.ID} ELSE @]
    /\ outputChan' = IF outputChan # <<>> THEN Tail(outputChan) ELSE outputChan
    /\ UNCHANGED <<svars, consumer, mu, pc, rebind, msgs, broker, msg, retrier, uvars>>

\* the Service call made for the event with this ID returns; ok says
\* whether it returns nil
ListenReturn(id, ok) ==
    /\ id \in listener.running
    /\ ok => ~(listener.event.Type = CreateRequestType
                 /\ listener.event.Payload = "null")
    /\ listener' = [listener EXCEPT
                       !.pc = IF @ = "call" THEN "select" ELSE @,
                       !.failed = Switch(listener.event, ok).failed,
                       !.handled = @ + 1,
                       !.running = @ \ {id}]
    /\ UNCHANGED <<svars, cvars, retrier, uvars>>

\* case <-ctx.Done()
ListenDone ==
    /\ listener.pc = "select"
    /\ listener' = [listener EXCEPT !.pc = "returned"]
    /\ UNCHANGED <<svars, cvars, retrier, uvars>>

\* Listener.Close: close(list.inputChan)
ListenerClose ==
    /\ ~listener.closed
    /\ listener' = [listener EXCEPT !.closed = TRUE]
    /\ UNCHANGED <<svars, cvars, retrier, uvars>>

(* ---------------------------------------------------------------------- *)
(* retrier.Connect (pkg/retrier/connect.go)                                *)
(* ---------------------------------------------------------------------- *)

\* what a call of the connector returns: a connection and a nil error, the
\* zero value and an error (amqp.Dial), or a value together with an error
\* (the redis connector of main.go: the client and the error of Ping)
ConnectorOutcomes == {"ok", "err", "value_err"}

\* the connector: results[i] is the outcome of its i-th call; that call
\* returns the connection Conn(i) and / or the error ConnErr(i)
ConnectorResults == [1..(MaxRetry + 1) -> ConnectorOutcomes]

Conn(i) == [conn |-> i]

ConnErr(i) == [error |-> i]

\* the zero value of T and the nil error
ZeroConn == [conn |-> 0]

NilErr == [error |-> 0]

\* the sleep arguments tried, in seconds
SleepSeconds == {0, 5}

\* the state of Connect before an iteration of `for range retry`
ConnectStart ==
    [attempts |-> 0, slept |-> 0, out |-> ZeroConn, err |-> NilErr]

\* the iterations of `for range retry` from the i-th on; st holds out, err,
\* the number of connector calls made and the seconds slept
RECURSIVE ConnectLoop(_, _, _, _, _)
ConnectLoop(i, retry, sleep, results, st) ==
    IF i > retry
    THEN st
    ELSE IF results[i] = "ok"
    THEN [st EXCEPT !.attempts = i, !.out = Conn(i), !.err = NilErr]
    ELSE ConnectLoop(i + 1, retry, sleep, results,
                     [st EXCEPT !.attempts = i,
                                !.out = IF results[i] = "value_err" THEN Conn(i)
                                        ELSE ZeroConn,
                                !.err = ConnErr(i), !.slept = @ + sleep])

\* Connect(retry, sleep, connector): what it returns, the calls it made and
\* the time it slept
Connect(retry, sleep, results) ==
    ConnectLoop(1, retry, sleep, results, ConnectStart)

IdleRetrier ==
    [pc |-> "idle", retry |-> 0, sleep |-> 0,
     results |-> [i \in 1..(MaxRetry + 1) |-> "err"], res |-> ConnectStart]

\* a call of Connect about to be made
ConnectCalls ==
    [pc : {"call"}, retry : 0..MaxRetry, sleep : SleepSeconds,
     results : ConnectorResults, res : {ConnectStart}]

\* the call runs to its return
ConnectReturns ==
    /\ retrier.pc = "call"
    /\ retrier' = [retrier EXCEPT
                      !.pc = "done",
                      !.res = Connect(retrier.retry, retrier.sleep,
                                      retrier.results)]
    /\ UNCHANGED <<svars, cvars, listener, uvars>>

(* ---------------------------------------------------------------------- *)
(* retrier.MultiConnects (pkg/retrier/multi_conns.go)                      *)
(* ---------------------------------------------------------------------- *)

\* connFunc: results[k] says whether its k-th call, counted over the whole
\* of MultiConnects, returns a nil error
ConnFuncResults == [1..(MaxCount * (MaxRetry + 1)) -> BOOLEAN]

\* retrierOpts: nil, or a RetrierOpts with its Count; 256 is the least
\* Count that uint8(retrierOpts.Count) turns into 0
NilOpts == [isNil |-> TRUE, Count |-> 0, Interval |-> 0]

RetrierOpts ==
    {NilOpts} \cup
    [isNil : {FALSE}, Count : (0..MaxRetry) \cup {256}, Interval : {5}]

\* uint8(n)
Uint8(n) == n % 256

\* the outcomes of the connFunc calls that follow the first made calls, as
\* the connector handed to Connect sees them; MultiConnects drops the
\* value a failed call returned
ResultsAfter(results, made) ==
    [j \in 1..(MaxRetry + 1) |->
        IF made + j \in DOMAIN results /\ results[made + j] THEN "ok" ELSE "err"]

\* conns = make([]T, count), err = nil, no connFunc call made
MultiStart(count) ==
    [conns |-> [i \in 1..count |-> ZeroConn], err |-> NilErr, made |-> 0,
     isNil |-> FALSE]

\* return nil, err
MultiFailed(st, made, err) ==
    [st EXCEPT !.conns = <<>>, !.isNil = TRUE, !.err = err, !.made = made]

\* the iterations of `for i := range conns` from the i-th on
RECURSIVE MultiLoop(_, _, _, _, _)
MultiLoop(i, count, results, opts, st) ==
    IF i > count
    THEN st
    ELSE IF ~opts.isNil
    THEN LET r == Connect(Uint8(opts.Count), opts.Interval,
                          ResultsAfter(results, st.made))
             made == st.made + r.attempts
         IN  IF r.err # NilErr
             THEN MultiFailed(st, made, ConnErr(made))
             ELSE MultiLoop(i + 1, count, results, opts,
                            [st EXCEPT !.made = made,
                                       !.conns[i] = IF r.attempts = 0 THEN ZeroConn
                                                    ELSE Conn(made)])
    ELSE LET made == st.made + 1
         IN  IF ~results[made]
             THEN MultiFailed(st, made, ConnErr(made))
             ELSE MultiLoop(i + 1, count, results, opts,
                            [st EXCEPT !.made = made, !.conns[i] = Conn(made)])

\* MultiConnects(count, connFunc, retrierOpts): the slice and the error it
\* returns, and the number of connFunc calls it made
MultiConnects(count, results, opts) ==
    MultiLoop(1, count, results, opts, MultiStart(count))

\* a call of MultiConnects about to be made
MultiConnectsCalls ==
    [pc : {"call"}, count : 0..MaxCount, opts : RetrierOpts,
     results : ConnFuncResults, res : {MultiStart(0)}]

\* the call runs to its return
MultiConnectsReturns ==
    /\ retrier.pc = "call"
    /\ retrier' = [retrier EXCEPT
                      !.pc = "done",
                      !.res = MultiConnects(retrier.count, retrier.results,
                                            retrier.opts)]
    /\ UNCHANGED <<svars, cvars, listener, uvars>>

(* ---------------------------------------------------------------------- *)
(* HealthChecker (package health)                                          *)
(* ---------------------------------------------------------------------- *)

\* the components main.go registers: publisher, casher, consumer
Healthers == {"publisher", "casher", "consumer"}

\* the sequences without repetition of at most n elements of S
Registrations(S, n) ==
    {q \in UNION {[1..k -> S] : k \in 0..n} :
        \A i, j \in DOMAIN q : i # j => q[i] # q[j]}

\* a loop that stops at the first unhealthy component
NextHealtherBreak(i, n, healthy) == IF healthy THEN i + 1 ELSE n + 1

\* the index HealthCheck goes to after healther i of n answered: the loop
\* has no break
NextHealther(i, n, healthy) == i + 1

IdleHealth ==
    [pc |-> "idle", healthers |-> <<>>, i |-> 1, ok |-> TRUE,
     consulted |-> <<>>, status |-> ""]

\* NewHealthChecker(logger, healthers...)
NewHealthChecker(healthers) == [IdleHealth EXCEPT !.healthers = healthers]

\* a request reaches HealthCheck: ok := true
HealthCheck ==
    /\ health.pc \in {"idle", "done"}
    /\ health' = [health EXCEPT !.pc = "range", !.i = 1, !.ok = TRUE,
                                !.consulted = <<>>, !.status = ""]
    /\ UNCHANGED <<svars, cvars, listener, retrier, group, validate, publisher>>

\* one iteration of the range over h.healthers: healther.IsHealthy()
HealtherIsHealthy(healthy) ==
    /\ health.pc = "range"
    /\ health.i <= Len(health.healthers)
    /\ health' = [health EXCEPT
                     !.consulted = Append(@, [who |-> health.healthers[health.i],
                                              healthy |-> healthy]),
                     !.ok = @ /\ healthy,
                     !.i = NextHealther(@, Len(health.healthers), healthy)]
    /\ UNCHANGED <<svars, cvars, listener, retrier, group, validate, publisher>>

\* the response: 200 "OK" or 500 "Not OK"
HealthRespond ==
    /\ health.pc = "range"
    /\ health.i > Len(health.healthers)
    /\ health' = [health EXCEPT
                     !.pc = "done",
                     !.status = IF health.ok THEN "200 OK"
                                ELSE "500 Internal Server Error"]
    /\ UNCHANGED <<svars, cvars, listener, retrier, group, validate, publisher>>

(* ---------------------------------------------------------------------- *)
(* CloserGroup (pkg/closer/closer.go): the version with a logger, lines    *)
(* 1-35, and the earlier one, lines 37-64                                  *)
(* ---------------------------------------------------------------------- *)

\* the components main.go registers: casher, list, consumer, publisher
Closers == {"casher", "list", "consumer", "publisher"}

IdleGroup ==
    [pc |-> "idle", closers |-> <<>>, i |-> 1, closed |-> <<>>, ret |-> NilErr]

\* NewCloserGroup(logger, closers...)
NewCloserGroup(closers) == [IdleGroup EXCEPT !.closers = closers]

\* CloserGroup.Close is called: var err error
GroupClose ==
    /\ group.pc = "idle"
    /\ group' = [group EXCEPT !.pc = "range"]
    /\ UNCHANGED <<svars, cvars, listener, retrier, health, validate, publisher>>

\* one iteration of the range over c.closers, closer.Close() returning nil
\* (ok) or an error: the error is logged, the loop goes on
CloserClose(ok) ==
    /\ group.pc = "range"
    /\ group.i <= Len(group.closers)
    /\ group' = [group EXCEPT
                    !.closed = Append(@, [who |-> group.closers[group.i],
                                          ok |-> ok]),
                    !.i = @ + 1]
    /\ UNCHANGED <<svars, cvars, listener, retrier, health, validate, publisher>>

\* return err: the outer err, which no statement assigns
GroupReturn ==
    /\ group.pc = "range"
    /\ group.i > Len(group.closers)
    /\ group' = [group EXCEPT !.pc = "done", !.ret = NilErr]
    /\ UNCHANGED <<svars, cvars, listener, retrier, health, validate, publisher>>

\* the earlier version: one iteration, return err on the first error
CE_CloserClose(ok) ==
    /\ group.pc = "range"
    /\ group.i <= Len(group.closers)
    /\ group' = [group EXCEPT
                    !.closed = Append(@, [who |-> group.closers[group.i],
                                          ok |-> ok]),
                    !.i = @ + 1,
                    !.pc = IF ok THEN "range" ELSE "done",
                    !.ret = IF ok THEN NilErr ELSE ConnErr(group.i)]
    /\ UNCHANGED <<svars, cvars, listener, retrier, health, validate, publisher>>

(* ---------------------------------------------------------------------- *)
(* Event.Validate (internal/entity/event.go)                               *)
(* ---------------------------------------------------------------------- *)

\* the values of Event.ID and Event.Type
EventIds == {"", "id1"}

EventTypes == ReqTypes \cup {"", "request.other"}

\* the values of Event.Payload: the nil slice, a slice of length 0 that is
\* not nil, and the payloads of Payloads
EventPayloads == Payloads \cup {"nil", "empty"}

ValidateEvents == [ID : EventIds, Payload : EventPayloads, Type : EventTypes]

\* Event.Validate: the error it returns, "" for nil
Validate(e) ==
    IF e.ID = "" THEN "event_id is nil"
    ELSE IF e.Payload = "nil" THEN "payload is nil"
    ELSE IF e.Type = "" THEN "type is nil"
    ELSE ""

IdleValidate ==
    [pc |-> "idle", event |-> [ID |-> "", Payload |-> "nil", Type |-> ""],
     err |-> ""]

\* a call of Validate about to be made
ValidateCalls == [pc : {"call"}, event : ValidateEvents, err : {""}]

\* the call runs to its return
ValidateReturns ==
    /\ validate.pc = "call"
    /\ validate' = [validate EXCEPT !.pc = "done", !.err = Validate(validate.event)]
    /\ UNCHANGED <<svars, cvars, listener, retrier, health, group, publisher>>

(* ---------------------------------------------------------------------- *)
(* Publisher (pkg/transport/publisher/publisher.go)                        *)
(* ---------------------------------------------------------------------- *)

\* the routing keys the Service publishes with
PublishKeys == {"form.created", "form.updated", "form.deleted"}

\* the data given to Publish: a form, an id, or a value json.Marshal
\* rejects
Polls == {"form", "id", "unmarshalable"}

NoPublish == [key |-> "", poll |-> "", err |-> ""]

\* publisher.Init(cfg, logger, conn): conn.Channel() succeeded; closing is
\* how far a call of Close has come
InitPublisher ==
    [conn |-> "open", channel |-> "open", closing |-> "no", last |-> NoPublish]

\* Publisher.Publish(poll, routingKey): json.Marshal twice, then
\* p.channel.Publish on the channel opened by Init
Publish(poll, key) ==
    /\ publisher' = [publisher EXCEPT !.last =
           [key |-> key, poll |-> poll,
            err |-> IF poll = "unmarshalable" THEN "marshal"
                    ELSE IF publisher.conn = "open" /\ publisher.channel = "open"
                            /\ broker.up
                    THEN "" ELSE "publish"]]
    /\ UNCHANGED <<svars, cvars, listener, retrier, health, group, validate>>

\* the connection of the Publisher is lost: its channel is closed with it
PublisherConnectionClosed ==
    /\ publisher.conn = "open"
    /\ publisher' = [publisher EXCEPT !.conn = "closed", !.channel = "closed"]
    /\ UNCHANGED <<svars, cvars, listener, retrier, health, group, validate>>

\* Publisher.Close, line 50: p.channel.Close(); its error is logged only.
\* No lock is held, so a Publish of another goroutine can run before the
\* connection is closed
PublisherCloseChannel ==
    /\ publisher.closing = "no"
    /\ publisher' = [publisher EXCEPT !.channel = "closed", !.closing = "channel"]
    /\ UNCHANGED <<svars, cvars, listener, retrier, health, group, validate>>

\* Publisher.Close, line 53: return p.conn.Close()
PublisherCloseConn ==
    /\ publisher.closing = "channel"
    /\ publisher' = [publisher EXCEPT !.conn = "closed", !.closing = "done"]
    /\ UNCHANGED <<svars, cvars, listener, retrier, health, group, validate>>

\* Publisher.IsHealthy
PublisherIsHealthy == publisher.conn = "open"

(* ---------------------------------------------------------------------- *)
(* Specification                                                           *)
(* ---------------------------------------------------------------------- *)

InitStores ==
    {[id \in FormIds |-> NoForm],
     [id \in FormIds |-> IF id = "f1" THEN Form(FALSE, "d0", {}) ELSE NoForm]}

InitCache(s) ==
    [k \in Keys |->
        IF \E id \in FormIds : k = FormKey(id) /\ s[id].exists
        THEN Entry(s[CHOOSE id \in FormIds : k = FormKey(id)])
        ELSE NoEntry]

\* the Listener returned by listener.Init, no call of retrier.Connect
\* no health request, no CloserGroup.Close, no Validate call, the Publisher
\* as publisher.Init returns it
InitUtil ==
    /\ health = IdleHealth
    /\ group = IdleGroup
    /\ validate = IdleValidate
    /\ publisher = InitPublisher

InitTransport ==
    /\ listener = IdleListener
    /\ retrier = IdleRetrier
    /\ InitUtil

\* the Consumer returned by consumer.Init(cfg, logger, conn): channel opened,
\* cfg.Exchange.Request declared and tracked
InitConsumer ==
    /\ consumer = [conn |-> "initial", channel |-> "open",
                   exchanges |-> {RequestExchange},
                   isConnected |-> TRUE, reconnecting |-> FALSE]
    /\ mu = [writer |-> "none", readers |-> {}]
    /\ pc = [t \in Threads |-> "start"]
    /\ rebind = [t \in Threads |-> {}]
    /\ msgs = [t \in Threads |-> "none"]
    /\ broker = [up |-> TRUE, declared |-> {RequestExchange}, bound |-> {}]
    /\ outputChan = <<>>
    /\ msg = <<>>

Init ==
    /\ inv = [c \in Callers |-> IdleInv]
    /\ store \in InitStores
    /\ cache = InitCache(store)
    /\ calls = 0
    /\ InitConsumer
    /\ InitTransport

Next ==
    \/ \E c \in Callers, o \in Ops : \E a \in ArgsOf(o) : Call(c, o, a)
    \/ \E c \in Callers : Persist(c)
    \/ \E c \in Callers : Reread(c)
    \/ \E c \in Callers : CacheAttempt(c)
    \/ \E c \in Callers : CacheTaskExit(c)
    \/ \E c \in Callers : PublishAttempt(c)
    \/ \E c \in Callers : PublishTaskExit(c)
    \/ \E c \in Callers : WaitReturn(c)

Spec == Init /\ [][Next]_vars

FS_Next ==
    \/ \E c \in Callers, o \in Ops : \E a \in FS_ArgsOf(o) : FS_Call(c, o, a)
    \/ \E c \in Callers : FS_Persist(c)
    \/ \E c \in Callers : FS_Reread(c)
    \/ \E c \in Callers : FS_CacheAttempt(c)
    \/ \E c \in Callers : FS_PublishAttempt(c)
    \/ \E c \in Callers : FS_BackgroundExit(c)
    \/ \E c \in Callers, i \in 1..MaxCalls : FS_DetachedAttempt(c, i)
    \/ \E c \in Callers, i \in 1..MaxCalls : FS_DetachedExit(c, i)
    \/ \E c \in Callers : FS_ForegroundDone(c)
    \/ \E c \in Callers : FS_Receive(c)

\* the Service of form_service.go in place of the one of interfaces.go
SpecFormService == Init /\ [][FS_Next]_vars

\* two callers (two deliveries handled at once, or two users of the Service)
\* that each call UpdateStatus once on the same stored form
ConcCallers == {1, 2}

InitConcurrent ==
    /\ inv = [c \in ConcCallers |-> IdleInv]
    /\ store = [id \in FormIds |-> IF id = "f1" THEN Form(FALSE, "d0", {}) ELSE NoForm]
    /\ cache = InitCache(store)
    /\ calls = 0
    /\ InitConsumer
    /\ InitTransport

NextConcurrent ==
    \/ \E c \in ConcCallers : \E a \in ArgsOf("UpdateStatus") :
          /\ a.id = "f1"
          /\ inv[c].op = "none"
          /\ Call(c, "UpdateStatus", a)
    \/ \E c \in ConcCallers : Persist(c)
    \/ \E c \in ConcCallers : Reread(c)
    \/ \E c \in ConcCallers : CacheAttempt(c)
    \/ \E c \in ConcCallers : CacheTaskExit(c)
    \/ \E c \in ConcCallers : PublishAttempt(c)
    \/ \E c \in ConcCallers : PublishTaskExit(c)
    \/ \E c \in ConcCallers : WaitReturn(c)

SpecConcurrent == InitConcurrent /\ [][NextConcurrent]_vars

\* the steps of the ConsumeMessages goroutine
LoopNext ==
    \/ \E t \in Threads : ConsumeMessages(t)
    \/ \E t \in Threads : CheckHealth(t)
    \/ \E t \in Threads : handleReconnection(t)
    \/ \E t \in Threads : reconnect(t)
    \/ \E t \in Threads : reconnectDial(t)
    \/ \E t \in Threads : reconnectChannel(t)
    \/ \E t \in Threads : Sleep(t)
    \/ \E t \in Threads : rebindExchanges(t)
    \/ \E t \in Threads : rebindExchangesRUnlock(t)
    \/ \E t \in Threads : rebindExchangesBind(t)
    \/ \E t \in Threads : startConsuming(t)
    \/ \E t \in Threads : \E m \in RawMsgs : processMessage(t, m)
    \/ \E t \in Threads : RangeEnds(t)

\* closers.Close() of main: list.Close() is called before consumer.Close()
ShutdownListener ==
    /\ pc["main"] \in {"start", "returned"}
    /\ ListenerClose

NextConsumer ==
    \/ LoopNext
    \/ \E t \in Threads : \E e \in Exchanges, k \in RoutingKeys : Subscribe(t, e, k)
    \/ \E t \in Threads : Close(t)
    \/ ShutdownListener
    \/ ConnectionClosed
    \/ ChannelClosed
    \/ BrokerDown
    \/ BrokerUp
    \/ ListenReceive

\* a second goroutine running ConsumeMessages on the same Consumer
SecondConsumeMessages(t) ==
    /\ t = "main" /\ pc[t] = "start"
    /\ pc' = [pc EXCEPT ![t] = "IsHealthy"]
    /\ UNCHANGED <<svars, lvars, rebind, msgs, msg, consumer, mu, broker, outputChan>>

NextReconnect ==
    \/ LoopNext
    \/ \E t \in Threads : SecondConsumeMessages(t)
    \/ ConnectionClosed
    \/ ChannelClosed
    \/ BrokerDown
    \/ BrokerUp
    \/ ListenReceive

\* two goroutines that both see the Consumer unhealthy and call
\* handleReconnection
SpecReconnect == Init /\ [][NextReconnect]_vars

\* Close, waiting in c.mu.Lock(), gets the lock
CloseLocked == \E t \in Threads : pc[t] = "Close_Lock" /\ Close(t)

\* the Consumer with its goroutine scheduled whenever it can take a step,
\* and a Close that waits for the lock served once the lock is free
SpecConsumer ==
    Init /\ [][NextConsumer]_vars /\ WF_vars(LoopNext) /\ WF_vars(CloseLocked)

\* the Consumer returned by Init of consumer.go: the exchange declared, the
\* map of exchanges empty, no flags
CG_InitConsumer ==
    /\ consumer = [conn |-> "initial", channel |-> "open", exchanges |-> {},
                   isConnected |-> FALSE, reconnecting |-> FALSE]
    /\ mu = [writer |-> "none", readers |-> {}]
    /\ pc = [t \in Threads |-> "start"]
    /\ rebind = [t \in Threads |-> {}]
    /\ msgs = [t \in Threads |-> "none"]
    /\ broker = [up |-> TRUE, declared |-> {RequestExchange}, bound |-> {}]
    /\ outputChan = <<>>
    /\ msg = <<>>

CG_Init ==
    /\ inv = [c \in Callers |-> IdleInv]
    /\ store \in InitStores
    /\ cache = InitCache(store)
    /\ calls = 0
    /\ CG_InitConsumer
    /\ InitTransport

CG_LoopNext ==
    \/ \E t \in Threads : CG_ConsumeMessages(t)
    \/ \E t \in Threads : CG_CheckClosed(t)
    \/ \E t \in Threads : CG_reconnect(t)
    \/ \E t \in Threads : CG_Sleep(t)
    \/ \E t \in Threads : CG_QueueDeclare(t)
    \/ \E t \in Threads : CG_Consume(t)
    \/ \E t \in Threads : \E m \in RawMsgs : CG_Receive(t, m)
    \/ \E t \in Threads : CG_Send(t)
    \/ \E t \in Threads : CG_RangeEnds(t)

CG_Next ==
    \/ CG_LoopNext
    \/ \E t \in Threads : \E e \in Exchanges, k \in RoutingKeys : CG_Subscribe(t, e, k)
    \/ ConnectionClosed
    \/ ChannelClosed
    \/ BrokerDown
    \/ BrokerUp
    \/ ListenReceive

\* the Consumer of consumer.go in place of the one of casher.go
SpecConsumerGo == CG_Init /\ [][CG_Next]_vars /\ WF_vars(CG_LoopNext)

NextListener ==
    \/ Listen
    \/ \E e \in Envelopes : InputChanSend(e)
    \/ ListenEvent
    \/ \E id \in 1..MaxHandled, ok \in BOOLEAN : ListenReturn(id, ok)
    \/ ListenDone
    \/ ListenerClose

\* the Listener on its own, given any events
SpecListener == Init /\ [][NextListener]_vars

InitConnect ==
    /\ inv = [c \in Callers |-> IdleInv]
    /\ store \in InitStores
    /\ cache = InitCache(store)
    /\ calls = 0
    /\ InitConsumer
    /\ listener = IdleListener
    /\ retrier \in ConnectCalls
    /\ InitUtil

NextConnect == ConnectReturns

\* one call of retrier.Connect for every retry, sleep and connector
SpecConnect == InitConnect /\ [][NextConnect]_vars

InitMultiConnects ==
    /\ inv = [c \in Callers |-> IdleInv]
    /\ store \in InitStores
    /\ cache = InitCache(store)
    /\ calls = 0
    /\ InitConsumer
    /\ listener = IdleListener
    /\ retrier \in MultiConnectsCalls
    /\ InitUtil

NextMultiConnects == MultiConnectsReturns

\* one call of retrier.MultiConnects for every count, options and connFunc
SpecMultiConnects == InitMultiConnects /\ [][NextMultiConnects]_vars

\* the Service, Consumer, Listener and retrier parts at rest
InitRest ==
    /\ inv = [c \in Callers |-> IdleInv]
    /\ store \in InitStores
    /\ cache = InitCache(store)
    /\ calls = 0
    /\ InitConsumer
    /\ listener = IdleListener
    /\ retrier = IdleRetrier

InitHealth ==
    /\ InitRest
    /\ health \in {NewHealthChecker(q) : q \in Registrations(Healthers, MaxHealthers)}
    /\ group = IdleGroup
    /\ validate = IdleValidate
    /\ publisher = InitPublisher

NextHealth ==
    \/ HealthCheck
    \/ \E healthy \in BOOLEAN : HealtherIsHealthy(healthy)
    \/ HealthRespond

\* health requests to a HealthChecker with any healthers, one at a time
SpecHealth == InitHealth /\ [][NextHealth]_vars

InitCloser ==
    /\ InitRest
    /\ health = IdleHealth
    /\ group \in {NewCloserGroup(q) : q \in Registrations(Closers, MaxClosers)}
    /\ validate = IdleValidate
    /\ publisher = InitPublisher

NextCloser ==
    \/ GroupClose
    \/ \E ok \in BOOLEAN : CloserClose(ok)
    \/ GroupReturn

\* one call of CloserGroup.Close, closer.go lines 26-35
SpecCloser == InitCloser /\ [][NextCloser]_vars

CE_NextCloser ==
    \/ GroupClose
    \/ \E ok \in BOOLEAN : CE_CloserClose(ok)
    \/ GroupReturn

\* one call of CloserGroup.Close, closer.go lines 55-64
SpecCloserEarlier == InitCloser /\ [][CE_NextCloser]_vars

InitValidate ==
    /\ InitRest
    /\ health = IdleHealth
    /\ group = IdleGroup
    /\ validate \in ValidateCalls
    /\ publisher = InitPublisher

NextValidate == ValidateReturns

\* one call of Event.Validate for every event
SpecValidate == InitValidate /\ [][NextValidate]_vars

NextPublisher ==
    \/ \E poll \in Polls, key \in PublishKeys : Publish(poll, key)
    \/ PublisherConnectionClosed
    \/ PublisherCloseChannel
    \/ PublisherCloseConn
    \/ BrokerDown
    \/ BrokerUp

\* the Publisher called again and again by the Service
SpecPublisher ==
    Init /\ [][NextPublisher]_vars
         /\ WF_vars(\E poll \in Polls, key \in PublishKeys : Publish(poll, key))

TypeOK ==
    /\ calls \in 0..MaxCalls
    /\ \A id \in FormIds : store[id] \in Forms

(* ---------------------------------------------------------------------- *)
(* Properties of the Service of interfaces.go                              *)
(* ---------------------------------------------------------------------- *)

\* number of collaborator calls a goroutine made
NCalls(t) == Len(t.outs)

\* number of those calls that returned an error
NFails(t) == Cardinality({i \in 1..Len(t.outs) : ~t.outs[i]})

\* the call was not rejected by the nil check
Entered(r) == r.pc \notin {"idle"} /\ r.result.cause # "argument"

\* C1: in every mutation, a cache call or a publish call is made only when
\* the repository write of that same call has already returned success.
C1_PersistBeforePropagation ==
    [][\A c \in Callers :
         (\/ NCalls(inv'[c].ctask) > NCalls(inv[c].ctask)
          \/ NCalls(inv'[c].ptask) > NCalls(inv[c].ptask))
         => /\ inv[c].persisted
            /\ inv[c].nWrite = 1
            /\ inv'[c].op = inv[c].op]_vars

C1_Witness ==
    \E c \in Callers :
        /\ inv[c].persisted
        /\ NCalls(inv[c].ctask) > 0
        /\ NCalls(inv[c].ptask) > 0

\* C2: when the repository write fails the call has returned the wrapped
\* repository error and has made no cache call, no publish call and no
\* repository re-read.
C2_PersistFailureAborts ==
    \A c \in Callers :
        (inv[c].nWrite > 0 /\ ~inv[c].persisted)
        => /\ inv[c].pc = "done"
           /\ inv[c].result = Error(PersistMsg(inv[c].op), "repository")
           /\ inv[c].ctask = IdleTask
           /\ inv[c].ptask = IdleTask
           /\ inv[c].nGet = 0

C2_Witness ==
    \E c \in Callers :
        /\ inv[c].nWrite = 1
        /\ ~inv[c].persisted
        /\ inv[c].pc = "done"
        /\ inv[c].op = "UpdateDescription"

\* C3: a call has returned only when both of its propagation tasks have
\* ended, so no cache or publish call of it is still to come.
C3_ReturnsAfterBothTasks ==
    \A c \in Callers :
        inv[c].pc = "done"
        => /\ inv[c].ctask.st \in {"idle", "done"}
           /\ inv[c].ptask.st \in {"idle", "done"}

\* C4 (as claimed): when both goroutines exhaust their retries the call
\* returns the cache error, whichever goroutine finished first.
C4_CacheErrorPreferred ==
    \A c \in Callers :
        (inv[c].pc = "done" /\ inv[c].ctask.failed /\ inv[c].ptask.failed)
        => inv[c].result.cause = "casher"

\* C5: CreateForm whose cache write failed on all 3 attempts and whose
\* publish never failed returns the cache error, and the publisher was
\* called exactly once.
C5_CacheFailureSurfaced ==
    \A c \in Callers :
        (/\ inv[c].op = "CreateForm"
         /\ inv[c].pc = "done"
         /\ NFails(inv[c].ctask) = 3
         /\ NFails(inv[c].ptask) = 0
         /\ Entered(inv[c]) /\ inv[c].persisted)
        => /\ inv[c].result = Error("cache error", "casher")
           /\ NCalls(inv[c].ptask) = 1

C5_Witness ==
    \E c \in Callers :
        /\ inv[c].op = "CreateForm"
        /\ inv[c].pc = "done"
        /\ NFails(inv[c].ctask) = 3
        /\ NFails(inv[c].ptask) = 0
        /\ inv[c].persisted

\* C6: when the write succeeded and the re-read failed, the call has
\* returned the "failed to retrieve updated form" error, which is not the
\* error of a failed write, no cache or publish call was made and the
\* store still holds what the write left.
C6_RereadFailure ==
    \A c \in Callers :
        (inv[c].persisted /\ inv[c].nGetFail > 0)
        => /\ inv[c].pc = "done"
           /\ inv[c].result = Error("failed to retrieve updated form", "repository.Get")
           /\ inv[c].result # PersistError(inv[c].op)
           /\ inv[c].ctask = IdleTask
           /\ inv[c].ptask = IdleTask
           /\ inv[c].nWrite = 1
           /\ store[inv[c].args.id] = inv[c].written

C6_Witness ==
    \E c \in Callers :
        /\ inv[c].op = "UpdateStatus"
        /\ inv[c].persisted
        /\ inv[c].nGetFail = 1
        /\ inv[c].written.exists
        /\ inv[c].written.closed

\* C7: CreateForm(nil), CreateQuestion(nil) and Update(id, nil) return an
\* error without any repository, cache or publisher call.
C7_NilRejected ==
    \A c \in Callers :
        (inv[c].pc # "idle" /\ inv[c].args.isNil)
        => /\ inv[c].pc = "done"
           /\ inv[c].result = Error(NilMsg(inv[c].op), "argument")
           /\ inv[c].nWrite = 0
           /\ inv[c].nGet = 0
           /\ inv[c].ctask = IdleTask
           /\ inv[c].ptask = IdleTask

C7_Witness ==
    \E c \in Callers :
        /\ inv[c].op = "Update"
        /\ inv[c].args.isNil
        /\ inv[c].pc = "done"

\* what C8 says of one goroutine
RetryBounded(t) ==
    /\ NCalls(t) <= 3
    /\ t.st \in {"ret", "done"} => NCalls(t) >= 1
    /\ \A i \in 1..Len(t.outs) : t.outs[i] => i = Len(t.outs) /\ t.st # "run"
    /\ t.failed => NCalls(t) = 3 /\ NFails(t) = 3
    /\ (t.st \in {"ret", "done"} /\ NFails(t) = NCalls(t)) => t.failed

\* C8: each propagation goroutine calls its collaborator at least once and
\* at most 3 times, makes no call after a successful one, and reports
\* failure only after 3 failed calls in a row.
C8_RetryPolicy ==
    \A c \in Callers : RetryBounded(inv[c].ctask) /\ RetryBounded(inv[c].ptask)

C8_Witness ==
    \E c \in Callers :
        /\ inv[c].ctask.failed
        /\ inv[c].ptask.st = "done"
        /\ inv[c].ptask.outs = <<FALSE, TRUE>>

\* C9 (as claimed): every call that has returned made exactly one
\* repository write call.
C9_EveryCallWritesOnce ==
    \A c \in Callers : inv[c].pc = "done" => inv[c].nWrite = 1

\* C9 (amended): a call that passed the nil check makes exactly one repository write
\* call, whether it succeeds or fails.
C9_OneWrite ==
    \A c \in Callers :
        /\ inv[c].nWrite <= 1
        /\ (Entered(inv[c]) /\ inv[c].pc # "persist") => inv[c].nWrite = 1

C9_Witness ==
    \E c \in Callers :
        /\ inv[c].pc = "done"
        /\ inv[c].nWrite = 1
        /\ ~inv[c].persisted
        /\ calls = MaxCalls

\* C10: a call that returns a propagation error made one repository write
\* and the store holds what that write left.
C10_WriteKept ==
    \A c \in Callers :
        (inv[c].pc = "done" /\ inv[c].result.cause \in {"casher", "publisher"})
        => /\ inv[c].persisted
           /\ inv[c].nWrite = 1
           /\ store[inv[c].args.id] = inv[c].written

C10_Witness ==
    \E c \in Callers :
        /\ inv[c].pc = "done"
        /\ inv[c].op = "CreateForm"
        /\ inv[c].result.cause = "publisher"
        /\ store[inv[c].args.id] = FormArg(inv[c].args)

\* the i-th Publish call of caller c's current call was made, by operation o
Published(c, i, o) == inv[c].op = o /\ i \in 1..Len(inv[c].events)

\* C11: every Publish call carries the event name fixed for its operation:
\* form.created for CreateForm, form.deleted for DeleteForm and form.updated
\* for the five other operations, UpdateStatus among them.
C11_EventNames ==
    \A c \in Callers : \A i \in 1..Len(inv[c].events) :
        /\ Published(c, i, "CreateForm") => inv[c].events[i].name = "form.created"
        /\ Published(c, i, "DeleteForm") => inv[c].events[i].name = "form.deleted"
        /\ Published(c, i, "CreateQuestion") => inv[c].events[i].name = "form.updated"
        /\ Published(c, i, "UpdateStatus") => inv[c].events[i].name = "form.updated"
        /\ Published(c, i, "Update") => inv[c].events[i].name = "form.updated"
        /\ Published(c, i, "UpdateDescription") => inv[c].events[i].name = "form.updated"
        /\ Published(c, i, "DeleteQuestion") => inv[c].events[i].name = "form.updated"

\* caller c's call of operation o has returned nil
Succeeded(c, o) ==
    inv[c].op = o /\ inv[c].pc = "done" /\ inv[c].result = NoErr

\* C12: once DeleteForm(id) has returned nil, the cache holds no entry under
\* the key "form:" + id.
C12_DeletedNotCached ==
    \A c \in Callers :
        Succeeded(c, "DeleteForm") => ~cache["form:" \o inv[c].args.id].present

\* redis refused every command the casher sent in caller c's current call
EveryCasherCallFailed(c) ==
    /\ inv[c].ccalls # <<>>
    /\ \A i \in 1..Len(inv[c].ccalls) : ~inv[c].ccalls[i].ok

\* C13: a DeleteForm whose cache deletion failed on every attempt made three
\* attempts and returns an error, and the persisted delete stands.
C13_DeleteCacheFailure ==
    \A c \in Callers :
        (inv[c].op = "DeleteForm" /\ inv[c].pc = "done" /\ EveryCasherCallFailed(c))
        => /\ Len(inv[c].ccalls) = 3
           /\ inv[c].result # NoErr
           /\ inv[c].persisted
           /\ ~store[inv[c].args.id].exists

\* the first call of every collaborator in caller c's CreateForm succeeded
FirstCallsSucceed(c) ==
    /\ inv[c].op = "CreateForm" /\ inv[c].pc = "done"
    /\ inv[c].persisted
    /\ inv[c].ccalls # <<>> /\ inv[c].ccalls[1].ok
    /\ inv[c].ptask.outs # <<>> /\ inv[c].ptask.outs[1]

\* C14: a CreateForm whose repository, cache and publish calls all succeed
\* at the first call made one repo.Create with the form, one cache write of
\* that form under "form:" + id, one Publish of the form as "form.created",
\* and returns nil.
C14_CreateFormOnce ==
    \A c \in Callers :
        FirstCallsSucceed(c)
        => /\ inv[c].nWrite = 1
           /\ inv[c].written = Form(inv[c].args.closed, inv[c].args.desc, {})
           /\ Len(inv[c].ccalls) = 1
           /\ inv[c].ccalls[1].method = "AddToCash"
           /\ cache["form:" \o inv[c].args.id]
                = [present |-> TRUE, form |-> inv[c].written]
           /\ ~cache[inv[c].args.id].present
           /\ inv[c].events =
                << [name |-> "form.created",
                    payload |-> [kind |-> "form", id |-> inv[c].args.id,
                                 form |-> inv[c].written]] >>
           /\ inv[c].result = NoErr

C14_Witness ==
    \E c \in Callers :
        /\ FirstCallsSucceed(c)
        /\ inv[c].args.id = "f2"
        /\ cache["form:f2"].present
        /\ Len(inv[c].events) = 1

\* C15: DeleteForm publishes a payload that holds the form identifier alone,
\* under "form.deleted", and never re-reads the form; when the delete, the
\* cache removal and the publish succeed it returns nil.
C15_DeleteFormEvent ==
    \A c \in Callers :
        inv[c].op = "DeleteForm"
        => /\ \A i \in 1..Len(inv[c].events) :
                inv[c].events[i] =
                    [name |-> "form.deleted",
                     payload |-> [kind |-> "form_id", id |-> inv[c].args.id,
                                  form |-> NoForm]]
           /\ inv[c].nGet = 0
           /\ (/\ inv[c].pc = "done" /\ inv[c].persisted
               /\ inv[c].ccalls # <<>> /\ inv[c].ccalls[1].ok
               /\ inv[c].ptask.outs # <<>> /\ inv[c].ptask.outs[1])
              => (inv[c].result = NoErr /\ Len(inv[c].events) = 1)

C15_Witness ==
    \E c \in Callers :
        /\ Succeeded(c, "DeleteForm")
        /\ inv[c].ccalls # <<>> /\ inv[c].ccalls[1].ok
        /\ Len(inv[c].events) = 1
        /\ inv[c].nGet = 0
        /\ ~store[inv[c].args.id].exists

\* C16: once a mutation other than DeleteForm has returned nil, with no other
\* mutation running, the entry under "form:" + id holds the form as
\* Repository.Get reads it back after the write.
C16_CacheHoldsPersisted ==
    \A c \in Callers :
        (/\ inv[c].pc = "done" /\ inv[c].result = NoErr
         /\ inv[c].op \notin {"none", "DeleteForm"}
         /\ \A d \in Callers \ {c} : inv[d].pc \in {"idle", "done"})
        => cache["form:" \o inv[c].args.id]
             = [present |-> TRUE, form |-> Get(store, inv[c].args.id)]

\* caller c's current call is an UpdateStatus that repeats, with the same id
\* and value, the UpdateStatus the caller made just before; both returned nil
RepeatedUpdateStatus(c) ==
    /\ Succeeded(c, "UpdateStatus")
    /\ inv[c].prev.op = "UpdateStatus"
    /\ inv[c].prev.args = inv[c].args

\* C18: a second UpdateStatus with the same id and value leaves the persisted
\* form as the first left it, and overwrites the same cache key with the
\* same content.
C18_UpdateStatusIdempotent ==
    \A c \in Callers :
        RepeatedUpdateStatus(c)
        => /\ store[inv[c].args.id] = inv[c].prev.written
           /\ inv[c].written = inv[c].prev.written
           /\ inv[c].form = inv[c].prev.form
           /\ \E i \in 1..Len(inv[c].ccalls) :
                /\ inv[c].ccalls[i].ok
                /\ inv[c].ccalls[i].method = "AddToCash"
                /\ inv[c].ccalls[i].key = inv[c].prev.args.id
           /\ cache["form:" \o inv[c].args.id]
                = [present |-> TRUE, form |-> inv[c].prev.form]

C18_Witness ==
    \E c \in Callers :
        /\ RepeatedUpdateStatus(c)
        /\ inv[c].args.closed
        /\ store[inv[c].args.id].closed

\* caller c's repository write / cache write was applied after those of
\* every other caller that has applied one
LastWriter(c) ==
    /\ inv[c].persisted
    /\ Writers(c) \subseteq inv[c].wBefore

LastCacher(c) ==
    /\ \E i \in 1..Len(inv[c].ccalls) : inv[c].ccalls[i].ok
    /\ Cachers(c) \subseteq inv[c].cBefore

\* C17: with two mutations of the same form running at once, the repository
\* holds what the last repository write left and the cache entry holds the
\* form passed by the last cache write, whichever mutation made each.
C17_LastWriterWins ==
    \A c \in DOMAIN inv :
        /\ LastWriter(c) => store[inv[c].args.id] = inv[c].written
        /\ LastCacher(c)
           => cache["form:" \o inv[c].args.id] = [present |-> TRUE, form |-> inv[c].form]

\* both mutations returned nil, and the cache entry holds the form read by
\* the one whose repository write was applied first, not the stored form
C17_Witness ==
    \E c, d \in DOMAIN inv :
        /\ c # d
        /\ Succeeded(c, "UpdateStatus") /\ Succeeded(d, "UpdateStatus")
        /\ inv[c].args.id = inv[d].args.id
        /\ c \in inv[d].wBefore
        /\ LastWriter(d) /\ LastCacher(c)
        /\ cache["form:" \o inv[c].args.id].form = inv[c].form
        /\ inv[c].form # store[inv[c].args.id]

(* ---------------------------------------------------------------------- *)
(* Properties of the Consumer                                              *)
(* ---------------------------------------------------------------------- *)

\* C19: every reconnect step the read loop starts after it saw the connection
\* closed terminates: it ends in a failed attempt, after which the loop
\* sleeps and tries again, or the loop goes on and returns to consuming.
C19_ReconnectTerminates ==
    (pc["loop"] = "reconnect") ~> (pc["loop"] \in {"Sleep", "range"})

\* the broker accepted the reconnect: the Consumer holds a connection
\* returned by amqp.Dial and a channel opened on it
NewConnection ==
    consumer.conn = "redialed" /\ consumer.channel = "open"

\* every registered exchange is declared over the current connection and the
\* queue is bound to it
TopologyRestored ==
    \A e \in consumer.exchanges :
        /\ e \in broker.declared
        /\ \E b \in broker.bound : b.exchange = e

\* C20: once a reconnect has got its new connection and channel, every
\* registered exchange is redeclared over it and the queue is rebound to
\* each, unless that connection is given up again.
C20_TopologyRestored ==
    NewConnection ~> (TopologyRestored \/ ~NewConnection)

\* no envelope is put on outputChan over a connection on which a registered
\* exchange is not declared or not bound
DeliveredOnRestoredTopology ==
    [][outputChan' # outputChan /\ Len(outputChan') > Len(outputChan)
        => TopologyRestored]_vars

\* the goroutine of ConsumeMessages waits in c.mu.RLock() for the write lock
\* it holds itself
ReconnectSelfDeadlock ==
    /\ pc["loop"] = "reconnect_RLock"
    /\ mu.writer = "loop"
    /\ broker.up /\ NewConnection

\* the message stream the read loop ranges over has ended on a connection
\* that still reports open
ChannelFailure ==
    pc["loop"] = "range" /\ msgs["loop"] = "closed" /\ IsOpen(consumer.conn)

\* the read loop consumes from an open channel
Consuming == pc["loop"] = "range" /\ msgs["loop"] = "open"

\* C21: after the message stream ended on an open connection, with no
\* Subscribe call in progress, the read loop is eventually consuming from a
\* usable channel again, unless the broker goes down or the connection is
\* lost as well.
C21_ChannelRecovered ==
    (ChannelFailure /\ pc["main"] = "returned")
        ~> (Consuming \/ ~broker.up \/ ~IsOpen(consumer.conn))

\* the read loop holds a decoded envelope and waits for room in outputChan
BlockedOnSend ==
    pc["loop"] = "send" /\ msg # <<>> /\ Len(outputChan) = OutputCap

\* C22: outputChan never holds more than its capacity, and with outputChan
\* full the read loop never waits to deliver a decoded envelope: it drops
\* the envelope and goes on.
C22_DropWhenFull ==
    /\ Len(outputChan) <= OutputCap
    /\ ~BlockedOnSend

\* the read loop has just taken a message whose body is no JSON
UndecodableTaken ==
    pc["loop"] = "range" /\ msg' # msg /\ msg' # <<>> /\ ~msg'[1].json

\* C23: a raw message whose body cannot be decoded is not put on outputChan
\* and is not kept for another attempt: the step that takes it leaves
\* outputChan as it was and leaves the read loop in its range over the
\* stream, ready for the next raw message.
C23_UndecodableSkipped ==
    [][UndecodableTaken =>
          /\ outputChan' = outputChan
          /\ pc'["loop"] = "range"
          /\ consumer' = consumer]_vars

C23_Witness ==
    /\ pc["loop"] = "range"
    /\ msg # <<>> /\ ~msg[1].json
    /\ consumer.channel = "open"
    /\ outputChan # <<>>

\* the goroutines executing reconnect
Reconnecting ==
    {t \in Threads : pc[t] \in {"reconnect", "reconnect_Dial", "reconnect_Channel",
                                 "reconnect_RLock"}}

\* C24: at most one goroutine executes reconnect at any time, also when
\* several goroutines have seen the Consumer unhealthy and have called
\* handleReconnection.
C24_OneReconnect ==
    /\ Cardinality(Reconnecting) <= 1
    /\ \A t \in Reconnecting : mu.writer = t /\ consumer.reconnecting

C24_Witness ==
    \E t, u \in Threads :
        /\ t # u
        /\ pc[t] = "reconnect"
        /\ pc[u] = "handleReconnection_Lock"

\* the goroutines inside an iteration over c.exchanges (rebindExchanges;
\* the iteration of reconnect is behind an RLock that does not return)
Iterating == {t \in Threads : pc[t] = "rebindExchanges_range"}

\* C25: no write to the registered exchange set happens while a goroutine
\* iterates over the set: a step that changes c.exchanges is taken with no
\* iteration under way, and an iteration runs with the lock read-held and
\* not write-held.
C25_NoWriteDuringIteration ==
    [][/\ consumer'.exchanges # consumer.exchanges => Iterating = {}
       /\ \A t \in Iterating' : t \in mu'.readers /\ mu'.writer = "none"]_vars

C25_Witness ==
    /\ pc["loop"] = "rebindExchanges_range"
    /\ pc["main"] = "Subscribe_Lock"

\* Close has returned
Closed == pc["main"] = "closed"

\* ConsumeMessages has returned
LoopTerminated == pc["loop"] = "returned"

\* C26: after Close of the Consumer the read loop eventually terminates.
C26_CloseStopsLoop == Closed ~> LoopTerminated

\* the Service method of each configured request type
Operation(type) ==
    CASE type = CreateRequestType -> "CreateForm"
      [] type = UpdateRequestType -> "Update"
      [] type = DeleteFormRequestType -> "DeleteForm"
      [] type = DeleteQuestionRequestType -> "DeleteQuestion"

\* the payload carries what the operation of the type needs: a form for a
\* creation and an update, ids for the deletions
WellFormed(e) ==
    \/ e.Type \in {CreateRequestType, UpdateRequestType} /\ e.Payload = "form"
    \/ e.Type \in {DeleteFormRequestType, DeleteQuestionRequestType}
          /\ e.Payload = "form_id"

\* C27: an envelope of a recognized type with a decodable payload causes
\* exactly one call of exactly one Service method, the one of its type.
C27_OneCallPerType ==
    (listener.handled > 0 /\ listener.event.Type \in ReqTypes
        /\ WellFormed(listener.event))
    => listener.called = <<Operation(listener.event.Type)>>

\* C28: whatever an envelope leads to (an error of the Service method, a
\* payload that yields no arguments, a type without a case) the Listener is
\* back at its select afterwards, ready for the next envelope.
C28_ListenerKeepsRunning ==
    [][listener'.handled > listener.handled => listener'.pc = "select"]_vars

\* a connector call among the first n returned a nil error
SomeSuccess(results, n) == \E i \in 1..n : results[i] = "ok"

\* the connector calls a Connect with retry+1 attempts makes: up to the
\* first success, all retry+1 when there is none
AttemptsDue(retry, results) ==
    IF SomeSuccess(results, retry + 1)
    THEN CHOOSE i \in 1..(retry + 1) :
            results[i] = "ok" /\ \A j \in 1..(i - 1) : results[j] # "ok"
    ELSE retry + 1

\* C29: Connect calls the connector up to retry+1 times and stops at the
\* first success; with retry = 0 it makes exactly one call and does not
\* sleep.
C29_ConnectAttempts ==
    retrier.pc = "done"
    => /\ retrier.res.attempts = AttemptsDue(retrier.retry, retrier.results)
       /\ retrier.retry = 0 => retrier.res.slept = 0

\* C30: Connect returns a nil error exactly when one of its connector calls
\* succeeded, and then the connection of that call; when every call failed
\* it returns the error of the last call.  For every retry, 0 included.
C30_ConnectResult ==
    retrier.pc = "done"
    => LET n == retrier.res.attempts
       IN  /\ retrier.res.err = NilErr <=> SomeSuccess(retrier.results, n)
           /\ SomeSuccess(retrier.results, n) => retrier.res.out = Conn(n)
           /\ ~SomeSuccess(retrier.results, n) => retrier.res.err = ConnErr(n)

\* c is the connection returned by a successful connFunc call among the
\* first made calls
Established(c, results, made) == \E k \in 1..made : results[k] /\ c = Conn(k)

\* C31: MultiConnects returns either a nil slice and the error of the last
\* connFunc call it made, a failed one after which it made no other, or a
\* nil error and exactly count connections, each one established by a
\* successful connFunc call.
C31_MultiConnectsFailFast ==
    retrier.pc = "done"
    => LET res == retrier.res
       IN  IF res.err # NilErr
           THEN /\ res.isNil
                /\ res.made >= 1
                /\ ~retrier.results[res.made]
                /\ res.err = ConnErr(res.made)
           ELSE /\ ~res.isNil
                /\ Len(res.conns) = retrier.count
                /\ \A i \in 1..retrier.count :
                      Established(res.conns[i], retrier.results, res.made)

\* the components consulted by the request just answered, in order
Consulted == [i \in 1..Len(health.consulted) |-> health.consulted[i].who]

\* C32: a health request consults every registered healther exactly once,
\* also after one has reported unhealthy, and answers 200 OK exactly when
\* all of them reported healthy (so also when none is registered).
C32_HealthAggregates ==
    health.pc = "done"
    => /\ Consulted = health.healthers
       /\ health.status = "200 OK"
            <=> \A i \in 1..Len(health.consulted) : health.consulted[i].healthy

C32_Witness ==
    /\ health.pc = "done"
    /\ Len(health.healthers) = MaxHealthers
    /\ ~health.consulted[1].healthy
    /\ health.consulted[MaxHealthers].healthy
    /\ health.status = "500 Internal Server Error"

\* C33: Validate returns nil exactly for an event whose ID is not empty,
\* whose payload is not empty and whose type is not empty.
C33_ValidateAccepts ==
    validate.pc = "done"
    => (validate.err = ""
          <=> /\ validate.event.ID # ""
              /\ validate.event.Payload \notin {"nil", "empty"}
              /\ validate.event.Type # "")

\* the connection of the Publisher is lost, not closed by Close
PublisherLost == publisher.conn = "closed" /\ publisher.closing = "no"

\* a Publish call has succeeded on an open connection
PublisherRecovered == publisher.conn = "open" /\ publisher.last.err = ""

\* C36: after the Publisher has lost its connection, with the broker
\* reachable and unless Close is called, a later Publish succeeds.
C36_PublisherRecovers ==
    PublisherLost ~> (PublisherRecovered \/ ~broker.up \/ publisher.closing # "no")

\* the closers on which Close was called, in order
ClosedInOrder == [i \in 1..Len(group.closed) |-> group.closed[i].who]

\* C39: CloserGroup.Close has called Close on every registered closer once,
\* in registration order, whatever the earlier closers returned.
C39_EveryCloserClosed == group.pc = "done" => ClosedInOrder = group.closers

\* a thread is about to call QueueBind or Consume on c.channel
UsesChannel ==
    \E t \in DOMAIN pc : pc[t] \in {"rebindExchanges_QueueBind", "startConsuming"}

\* C40: whenever isConnected is true the connection and the channel are
\* not nil, and the consume loop never binds or consumes on a nil channel,
\* whatever reconnects failed and whether Close was called.
C40_ConnectedHasHandles ==
    /\ consumer.isConnected => (consumer.conn # "nil" /\ consumer.channel # "nil")
    /\ UsesChannel => consumer.channel # "nil"

\* a reconnect has failed: the handles are nil, the flag is false and the
\* loop goes on to its next iteration
C40_Witness ==
    /\ ~consumer.isConnected
    /\ consumer.channel = "nil" /\ consumer.conn = "nil"
    /\ ~consumer.reconnecting
    /\ pc["loop"] = "IsHealthy"

\* Subscribe has declared the queue and bound it, and goes on to register
\* the exchange
SubscribeBound == pc["main"] = "Subscribe_Lock"

\* C34: a Subscribe call whose QueueDeclare and QueueBind succeeded returns,
\* with the exchange registered, and so lets go of the Consumer's lock.
C34_SubscribeReturns ==
    SubscribeBound ~> (pc["main"] = "returned" /\ mu.readers = {})

\* C35: the queue is bound to an exchange with one routing key, the one
\* Subscribe bound it with: the consume cycle rebinds with that key.
C35_RebindWithSubscribeKey ==
    \A b, o \in broker.bound : b.exchange = o.exchange => b.key = o.key

\* the read loop has sent on outputChan after Listener.Close closed it
SendOnClosed == listener.closed /\ pc["loop"] = "panic"

\* C37: no envelope is sent to outputChan once Listener.Close has closed
\* it: the shutdown sequence cannot make the read loop panic.
C37_NoSendAfterClose == ~SendOnClosed

\* C38: the Listener makes its Service calls one at a time and in the
\* order the events were put on inputChan: a call starts only when the call
\* for the event received before it has returned.
C38_OneCallAtATime ==
    /\ Cardinality(listener.running) <= 1
    /\ \A i, j \in 1..Len(listener.started) :
          i < j => listener.started[i] < listener.started[j]

\* the call for the second event is running, the first has returned and a
\* third event waits on the channel
C38_Witness ==
    /\ Len(listener.started) = 2
    /\ listener.running = {listener.started[2]}
    /\ listener.pc = "call"
    /\ outputChan # <<>>

====
